---- MODULE Spec2Model ----
(***************************************************************************)
(* Verification model of the ICP hub frontend service layer:               *)
(*   - FileService.buildTreeFromFiles (the Path Tree Builder),             *)
(*   - FileService.getFileTree / getFileContent (fallback to mock data),   *)
(*   - RepositoryService.getRepositories / getRepository,                  *)
(*   - the normalization of wire records (option fields, timestamps),      *)
(*   - the ApiService singleton (init, login, logout, backend operations), *)
(*   - ApiService.retryRequest.                                            *)
(*                                                                         *)
(* Strings.  A JavaScript path string is represented by the sequence of    *)
(* its '/'-separated segments: String.split('/') is a bijection between    *)
(* strings and non-empty sequences of slash-free strings and              *)
(* Array.join('/') is its inverse.  The empty string '' is <<"">>, the     *)
(* string '/a/b' is <<"", "a", "b">> and 'a/b' is <<"a", "b">>.            *)
(***************************************************************************)
EXTENDS Integers, Sequences, FiniteSets, TLC

VARIABLES
    files,               \* the listing handed to buildTreeFromFiles
    tree,                \* the root list it returned
    pc,                  \* "listed" before the build, "built" after it
    actor,               \* apiService.actor
    isAuthenticated,     \* apiService.isAuthenticated
    currentUser,         \* apiService.currentUser
    isBackendAvailable,  \* apiService.isBackendAvailable
    call,                \* the service call in progress and its locals
    again,               \* the root list of a second build of the same listing
    wire,                \* the wire record handed to a normalizer
    normalized,          \* what the normalizer made of it
    agent,               \* apiService.agent
    authClient,          \* apiService.authClient
    login,               \* the promise of the login() in progress
    last,                \* the ApiService operation that returned last
    retry,               \* the retryRequest call in progress and its locals
    walletProvider,      \* WalletProvider: wallet, loading, error, the call in progress
    explorer,            \* FileExplorer: files, loading, error, the fetches in flight
    debounced,           \* a debounced search function: its timers and promises
    searchService,       \* SearchService: searchCache and the universalSearch running
    uploads,             \* uploadMultipleFiles: the loop and its results
    detail               \* RepositoryDetail: currentPath and breadcrumbs

treeVars == <<files, tree, pc>>

apiVars == <<actor, isAuthenticated, currentUser, isBackendAvailable>>

normVars == <<wire, normalized>>

sessionVars == <<agent, authClient, login, last>>

viewVars == <<walletProvider, explorer, debounced, searchService, uploads, detail>>

vars ==
    <<files, tree, pc, actor, isAuthenticated, currentUser, isBackendAvailable, call,
      again, wire, normalized, agent, authClient, login, last, retry,
      walletProvider, explorer, debounced, searchService, uploads, detail>>

\* ------------------------------------------------------------------ bounds

\* Longest input list handed to the builder.
MaxFiles == 2

\* Longest repository listing a backend reply carries.
MaxRepos == 2

\* Largest number of '/'-separated segments of an input path.
MaxDepth == 3

\* ------------------------------------------------------------- the strings

\* The string '' (falsy in JavaScript).
EmptyString == <<"">>

\* The folder marker file name of fileService.ts.
GITKEEP == ".gitkeep"

\* Segment names used for folders and for the last segment of input paths.
FolderSegs == {"", "a"}

LeafSegs == {"a", "b", GITKEEP}

\* The characters of a segment name.
Chars(name) ==
    CASE name = ""          -> <<>>
      [] name = GITKEEP     -> <<".", "g", "i", "t", "k", "e", "e", "p">>
      [] name = "a"         -> <<"a">>
      [] name = "b"         -> <<"b">>
      [] name = "src"       -> <<"s", "r", "c">>
      [] name = "main.mo"   -> <<"m", "a", "i", "n", ".", "m", "o">>
      [] name = "types.mo"  -> <<"t", "y", "p", "e", "s", ".", "m", "o">>
      [] name = "README.md" -> <<"r", "e", "a", "d", "m", "e", ".", "m", "d">>

\* Primary collation weight of a character: '.' < '/' < letters in alphabetic
\* order, upper and lower case alike, as String.prototype.localeCompare
\* orders them.
Alphabet ==
    <<".", "/", "a", "b", "c", "d", "e", "g", "i", "k", "m", "n", "o", "p", "r",
      "s", "t", "y">>

CollationKey(ch) == CHOOSE k \in 1..Len(Alphabet) : Alphabet[k] = ch

\* The collation keys of a segment name, character by character.
SegKeys(name) == [k \in 1..Len(Chars(name)) |-> CollationKey(Chars(name)[k])]

\* The collation keys of a whole path string: segments joined by '/'.
RECURSIVE PathKeys(_)
PathKeys(path) ==
    IF Len(path) = 1 THEN SegKeys(path[1])
    ELSE SegKeys(path[1]) \o <<CollationKey("/")>> \o PathKeys(Tail(path))

\* a.localeCompare(b) on key sequences: negative, zero or positive.
RECURSIVE KeysCompare(_, _)
KeysCompare(ka, kb) ==
    IF ka = <<>> THEN (IF kb = <<>> THEN 0 ELSE -1)
    ELSE IF kb = <<>> THEN 1
    ELSE IF Head(ka) < Head(kb) THEN -1
    ELSE IF Head(ka) > Head(kb) THEN 1
    ELSE KeysCompare(Tail(ka), Tail(kb))

localeCompare(a, b) == KeysCompare(PathKeys(a), PathKeys(b))

\* The comparator of the sort in buildTreeFromFiles.
ByPath(a, b) == localeCompare(a.path, b.path)

\* Array.prototype.sort is stable: insertion into an already sorted list
\* after every element that does not compare greater.
RECURSIVE InsertSorted(_, _)
InsertSorted(sorted, x) ==
    IF sorted = <<>> THEN <<x>>
    ELSE IF ByPath(Head(sorted), x) <= 0
         THEN <<Head(sorted)>> \o InsertSorted(Tail(sorted), x)
         ELSE <<x>> \o sorted

RECURSIVE SortFrom(_, _)
SortFrom(sorted, rest) ==
    IF rest = <<>> THEN sorted
    ELSE SortFrom(InsertSorted(sorted, Head(rest)), Tail(rest))

\* A builder that keeps the input order.
sortedFiles_unsorted(fs) == fs

\* [...files].sort((a, b) => a.path.localeCompare(b.path))
sortedFiles(fs) == SortFrom(<<>>, fs)

\* -------------------------------------------------- the Path Tree Builder

\* pathParts[pathParts.length - 1]
LastSegment(parts) == parts[Len(parts)]

\* pathParts.slice(0, n).join('/') for n >= 1
Prefix(parts, n) == SubSeq(parts, 1, n)

\* The objects the builder allocates live in a heap, because nodeMap and the
\* children lists hold references to the same folder objects: heap[id] is a
\* node whose children list holds ids.
NewBuild == [heap |-> <<>>, nodeMap |-> <<>>, tree |-> <<>>]

\* nodeMap[path] is truthy
Mapped(st, path) == \E k \in 1..Len(st.nodeMap) : st.nodeMap[k].key = path

\* nodeMap[path]
Lookup(st, path) ==
    st.nodeMap[CHOOSE k \in 1..Len(st.nodeMap) : st.nodeMap[k].key = path].id

\* nodeMap[parentPath].children.push(node)
PushChild(heap, parentId, id) ==
    [heap EXCEPT ![parentId].children = Append(@, id)]

\* The folder node synthesized for a path prefix.
FolderNode(currentPath, folderName) ==
    [path |-> currentPath, name |-> folderName, isFolder |-> TRUE, size |-> 0,
     children |-> <<>>]

\* A folder loop that makes a node in every round, seen before or not.
CreateFolder_always(st, parts, i, currentPath) ==
    LET id == Len(st.heap) + 1
        heap1 == Append(st.heap, FolderNode(currentPath, parts[i]))
        map1 == Append(st.nodeMap, [key |-> currentPath, id |-> id])
    IN  IF i = 1
        THEN [heap |-> heap1, nodeMap |-> map1, tree |-> Append(st.tree, id)]
        ELSE LET parentPath == Prefix(parts, i - 1)
             IN  IF Mapped(st, parentPath)
                 THEN [heap |-> PushChild(heap1, Lookup(st, parentPath), id),
                       nodeMap |-> map1, tree |-> st.tree]
                 ELSE [heap |-> heap1, nodeMap |-> map1, tree |-> st.tree]

\* One round of the loop "for (let i = 0; i < pathParts.length - 1; i++)":
\* i counts from 1 here, so the code's i is i - 1.
CreateFolder(st, parts, i, currentPath) ==
    IF Mapped(st, currentPath) THEN st
    ELSE LET id == Len(st.heap) + 1
             heap1 == Append(st.heap, FolderNode(currentPath, parts[i]))
             map1 == Append(st.nodeMap, [key |-> currentPath, id |-> id])
         IN  IF i = 1
             THEN [heap |-> heap1, nodeMap |-> map1, tree |-> Append(st.tree, id)]
             ELSE LET parentPath == Prefix(parts, i - 1)
                  IN  IF Mapped(st, parentPath)
                      THEN [heap |-> PushChild(heap1, Lookup(st, parentPath), id),
                            nodeMap |-> map1, tree |-> st.tree]
                      ELSE [heap |-> heap1, nodeMap |-> map1, tree |-> st.tree]

\* currentPath = currentPath ? `${currentPath}/${folderName}` : folderName
NextCurrentPath(currentPath, folderName) ==
    IF currentPath = EmptyString THEN <<folderName>>
    ELSE Append(currentPath, folderName)

RECURSIVE CreateFolders(_, _, _, _)
CreateFolders(st, parts, i, currentPath) ==
    IF i > Len(parts) - 1 THEN st
    ELSE LET cp == NextCurrentPath(currentPath, parts[i])
         IN  CreateFolders(CreateFolder(st, parts, i, cp), parts, i + 1, cp)

\* The node made for an input record.
FileNode(file) ==
    [path |-> file.path, name |-> LastSegment(file.path), isFolder |-> FALSE,
     size |-> file.size]

\* "Add file to its parent folder"
AttachFile(st, file) ==
    LET parentPath == Prefix(file.path, Len(file.path) - 1)
        id == Len(st.heap) + 1
        heap1 == Append(st.heap, FileNode(file))
    IN  IF Mapped(st, parentPath)
        THEN [st EXCEPT !.heap = PushChild(heap1, Lookup(st, parentPath), id)]
        ELSE st

\* A loop body that does not skip the folder markers.
ProcessFile_keepsMarkers(st, file) ==
    IF Len(file.path) = 1
    THEN [st EXCEPT !.heap = Append(@, FileNode(file)),
                    !.tree = Append(@, Len(st.heap) + 1)]
    ELSE AttachFile(CreateFolders(st, file.path, 1, EmptyString), file)

\* The body of sortedFiles.forEach.
ProcessFile(st, file) ==
    IF LastSegment(file.path) = GITKEEP THEN st
    ELSE IF Len(file.path) = 1
         THEN [st EXCEPT !.heap = Append(@, FileNode(file)),
                         !.tree = Append(@, Len(st.heap) + 1)]
         ELSE AttachFile(CreateFolders(st, file.path, 1, EmptyString), file)

RECURSIVE ProcessAll(_, _)
ProcessAll(st, fs) ==
    IF fs = <<>> THEN st ELSE ProcessAll(ProcessFile(st, Head(fs)), Tail(fs))

\* The builder's heap, nodeMap and root list when forEach has finished.
BuildState(fs) == ProcessAll(NewBuild, sortedFiles(fs))

\* The value a reference denotes: the node with its children in place.
RECURSIVE Materialize(_, _)
Materialize(heap, id) ==
    IF heap[id].isFolder
    THEN [heap[id] EXCEPT !.children =
            [k \in 1..Len(heap[id].children) |-> Materialize(heap, heap[id].children[k])]]
    ELSE heap[id]

\* FileService.buildTreeFromFiles(files): the returned root list.
buildTreeFromFiles(fs) ==
    LET st == BuildState(fs)
    IN  [k \in 1..Len(st.tree) |-> Materialize(st.heap, st.tree[k])]

\* ------------------------------------------------------------- the inputs

RECURSIVE FolderPrefixes(_)
FolderPrefixes(n) ==
    IF n = 0 THEN {<<>>}
    ELSE {Append(p, s) : p \in FolderPrefixes(n - 1), s \in FolderSegs}

\* The paths of the input records: up to MaxDepth segments.
Paths ==
    {Append(p, s) : p \in UNION {FolderPrefixes(n) : n \in 0..(MaxDepth - 1)},
                    s \in LeafSegs}

FileSizes == {7}

\* The spec's example listing: src/main.mo, src/types.mo, README.md.
ExampleFiles ==
    << [path |-> <<"src", "main.mo">>, size |-> 7],
       [path |-> <<"src", "types.mo">>, size |-> 7],
       [path |-> <<"README.md">>, size |-> 7] >>

RECURSIVE ListsOver(_, _)
ListsOver(recs, n) ==
    IF n = 0 THEN {<<>>}
    ELSE LET shorter == ListsOver(recs, n - 1)
         IN  shorter \cup
             {Append(l, r) : l \in {x \in shorter : Len(x) = n - 1}, r \in recs}

UniquePaths(fs) ==
    \A i, j \in 1..Len(fs) : fs[i].path = fs[j].path => i = j

\* Listings with unique paths, as the backend's listFiles returns them.
InputLists ==
    {fs \in ListsOver([path : Paths, size : FileSizes], MaxFiles) : UniquePaths(fs)}
        \cup {ExampleFiles}

NoTree == <<"none">>

\* ------------------------------------------------- the service objects

\* null and undefined.
Null == "null"

\* The call record when no service call is in progress.
NoData == [null |-> TRUE, malformed |-> FALSE, items |-> <<>>]

NoResult == [success |-> FALSE, data |-> NoData, error |-> ""]

NoValue == [source |-> "none", payload |-> <<>>]

Idle ==
    [op |-> "none", arg |-> "", pc |-> "idle", from |-> "", resp |-> NoResult,
     listFilesCalls |-> 0, userRepositories |-> <<>>, settled |-> "pending",
     value |-> NoValue]

\* The login record when no login() is in progress.
NoLogin == [pc |-> "idle", settled |-> "pending", value |-> FALSE, setup |-> "none"]

\* The fields of the singleton, as an operation finds them when it starts.
Fields ==
    [actor |-> actor, agent |-> agent, isAuthenticated |-> isAuthenticated,
     currentUser |-> currentUser]

\* The record of the step that ran last on the singleton: the operation,
\* the backend's or identity provider's answer, how the returned promise
\* settled, the returned value, what the actor setup inside the step did
\* and the fields as the step found them.
NoOp ==
    [op |-> "none", reply |-> "none", outcome |-> "none", success |-> FALSE,
     value |-> "none", error |-> "", setup |-> "none",
     before |-> [actor |-> Null, agent |-> Null, isAuthenticated |-> FALSE,
                 currentUser |-> Null]]

\* The retry record when no retryRequest is in progress.
NoRetry ==
    [pc |-> "idle", maxRetries |-> 0, delay |-> 0, attempt |-> 0, calls |-> 0,
     outcomes |-> <<>>, waits |-> <<>>, settled |-> "pending", value |-> "none"]

\* The wire and normalized records when no normalizer has run.
NoWire == [kind |-> "none"]

NotNormalized == [kind |-> "none"]

\* new ApiService(): the constructor's field values.
ApiConstructed ==
    /\ authClient = Null
    /\ actor = Null
    /\ isAuthenticated = FALSE
    /\ currentUser = Null
    /\ agent = Null
    /\ isBackendAvailable = FALSE

\* A component that is not mounted, a helper that is not in use.
NoView == [pc |-> "none"]

Unviewed ==
    /\ walletProvider = NoView
    /\ explorer = NoView
    /\ debounced = NoView
    /\ searchService = NoView
    /\ uploads = NoView
    /\ detail = NoView

\* Nothing but the constructor has run on the singleton and its helpers.
Untouched ==
    /\ Unviewed
    /\ login = NoLogin
    /\ last = NoOp
    /\ retry = NoRetry
    /\ wire = NoWire
    /\ normalized = NotNormalized
    /\ again = NoTree

\* ------------------------------------------------- the builder's machine

Init ==
    /\ files \in InputLists
    /\ tree = NoTree
    /\ pc = "listed"
    /\ ApiConstructed
    /\ call = Idle
    /\ Untouched

\* const tree = this.buildTreeFromFiles(files)
BuildTree ==
    /\ pc = "listed"
    /\ tree' = buildTreeFromFiles(files)
    /\ pc' = "built"
    /\ UNCHANGED <<files, apiVars, call, again, normVars, sessionVars, retry, viewVars>>

Next == BuildTree

Spec == Init /\ [][Next]_vars

\* ------------------------------------------------- reading a built tree

\* The parent of a root node.
NoParent == <<>>

IsPlaceholder(path) == LastSegment(path) = GITKEEP

\* The tree flattened depth-first: one entry per node, with its nesting
\* depth (root level is 0), its parent's path and its number of children.
RECURSIVE Flatten(_, _, _)
Flatten(nodes, depth, parent) ==
    IF nodes = <<>> THEN <<>>
    ELSE LET n == Head(nodes)
             entry == [path |-> n.path, name |-> n.name, isFolder |-> n.isFolder,
                       size |-> n.size, depth |-> depth, parent |-> parent,
                       kids |-> IF n.isFolder THEN Len(n.children) ELSE 0]
         IN  <<entry>>
             \o (IF n.isFolder THEN Flatten(n.children, depth + 1, n.path) ELSE <<>>)
             \o Flatten(Tail(nodes), depth, parent)

Entries == Flatten(tree, 0, NoParent)

\* The input records that are not folder markers.
RealRecords == {k \in 1..Len(files) : ~IsPlaceholder(files[k].path)}

\* Entry e is the file node of record r.
IsNodeOf(e, r) == ~e.isFolder /\ e.path = r.path /\ e.size = r.size

Built == pc = "built"

\* ------------------------------------------------------------------- C1

\* C1: flattened depth-first, the returned tree contains every input record
\* that is not a placeholder exactly once as a leaf, and every leaf of the
\* tree is such a record.
C1_NoLossNoDuplication ==
    Built =>
        LET E == Entries
            Leaves == {k \in 1..Len(E) : E[k].kids = 0}
        IN  /\ \A r \in RealRecords :
                   Cardinality({k \in Leaves : IsNodeOf(E[k], files[r])}) = 1
            /\ \A k \in Leaves : \E r \in RealRecords : IsNodeOf(E[k], files[r])

\* ------------------------------------------------------------------- C2

\* The listing that holds nothing but the marker of folder f.
OnlyMarkerOf(f) == <<[path |-> <<f, GITKEEP>>, size |-> 7]>>

\* C2: when the listing is the single marker record f/.gitkeep, the builder
\* returns the single folder node f with an empty children list.
C2_EmptyFolderShown ==
    \A f \in FolderSegs :
        (Built /\ files = OnlyMarkerOf(f)) => tree = <<FolderNode(<<f>>, f)>>

\* ------------------------------------------------------------------- C3

\* The parent path of a record of two or more segments.
ParentPath(path) == Prefix(path, Len(path) - 1)

\* The records whose parent folder is not in nodeMap when they are attached
\* (nodeMap only grows, and no later record adds a missing parent).
Orphans ==
    LET st == BuildState(files)
    IN  {r \in RealRecords :
            Len(files[r].path) > 1 /\ ~Mapped(st, ParentPath(files[r].path))}

\* C3: a record whose parent path is no materialized folder is placed at
\* root level: it is not dropped.
C3_OrphanAtRoot ==
    Built =>
        LET E == Entries
        IN  \A r \in Orphans :
                \E k \in 1..Len(E) : IsNodeOf(E[k], files[r]) /\ E[k].depth = 0

\* ------------------------------------------------------------------- C5

\* C5: a record of n segments has exactly n-1 ancestor folders, one per
\* proper prefix of its path, nested one below the other, and its leaf is at
\* depth n-1.
C5_AncestorsAndDepth ==
    Built =>
        LET E == Entries
            FolderIndexes(path) == {k \in 1..Len(E) : E[k].isFolder /\ E[k].path = path}
        IN  \A r \in RealRecords :
                LET path == files[r].path
                    n == Len(path)
                IN  /\ \E k \in 1..Len(E) :
                           /\ IsNodeOf(E[k], files[r])
                           /\ E[k].depth = n - 1
                           /\ E[k].parent = IF n = 1 THEN NoParent ELSE Prefix(path, n - 1)
                    /\ \A j \in 1..(n - 1) :
                           /\ Cardinality(FolderIndexes(Prefix(path, j))) = 1
                           /\ \A k \in FolderIndexes(Prefix(path, j)) :
                                  /\ E[k].depth = j - 1
                                  /\ E[k].parent =
                                         IF j = 1 THEN NoParent ELSE Prefix(path, j - 1)

\* ------------------------------------------------------------------- C6

\* C6: every node's name is the last segment of its path, and every node
\* below the root has the path parent.path + '/' + name.
C6_PathOfParentAndName ==
    Built =>
        LET E == Entries
        IN  \A k \in 1..Len(E) :
                /\ E[k].name = LastSegment(E[k].path)
                /\ E[k].depth > 0 => E[k].path = Append(E[k].parent, E[k].name)

\* ------------------------------------------------------------------- C7

\* C7: no node of the returned tree has the placeholder marker as the last
\* segment of its path.
C7_NoPlaceholderNode ==
    Built => LET E == Entries IN \A k \in 1..Len(E) : ~IsPlaceholder(E[k].path)

\* A marker that is the only record of its folder has been filtered.
C7_Witness ==
    /\ Built
    /\ \E r \in 1..Len(files) :
           /\ IsPlaceholder(files[r].path)
           /\ Len(files[r].path) > 1
           /\ \A q \in 1..Len(files) :
                  (q # r /\ Len(files[q].path) > 1)
                      => ParentPath(files[q].path) # ParentPath(files[r].path)

\* ------------------------------------------------------------------- C4

\* The value of currentPath after i rounds of the folder loop.
RECURSIVE CurrentPathAt(_, _)
CurrentPathAt(parts, i) ==
    IF i = 0 THEN EmptyString
    ELSE NextCurrentPath(CurrentPathAt(parts, i - 1), parts[i])

\* Processing record r makes or reuses the node of entry e.
Touches(r, e) ==
    IF e.isFolder
    THEN \E i \in 1..(Len(files[r].path) - 1) : CurrentPathAt(files[r].path, i) = e.path
    ELSE IsNodeOf(e, files[r])

Touching(e) == {r \in RealRecords : Touches(r, e)}

\* Record r is the first, in the order of the input list, among rs.
FirstListed(r, rs) == r \in rs /\ \A q \in rs : r <= q

\* Record r is the first, in the order of localeCompare on the paths,
\* among rs.
FirstByPath(r, rs) ==
    r \in rs /\ \A q \in rs : localeCompare(files[r].path, files[q].path) <= 0

\* Entries d and e are children of the same folder, or both roots.
Siblings(d, e) == d.depth = e.depth /\ d.parent = e.parent

ExampleNode(name) == FileNode([path |-> <<"src", name>>, size |-> 7])

ExampleSrc ==
    [FolderNode(<<"src">>, "src") EXCEPT
        !.children = <<ExampleNode("main.mo"), ExampleNode("types.mo")>>]

ExampleReadme == FileNode([path |-> <<"README.md">>, size |-> 7])

\* C4 as stated: siblings are in the order of their first occurrence in the
\* input list, and the example listing yields src followed by README.md.
C4_InputOrder ==
    Built =>
        LET E == Entries
        IN  /\ \A i, j \in 1..Len(E) :
                   (i < j /\ Siblings(E[i], E[j])) =>
                       \E r \in Touching(E[i]), q \in Touching(E[j]) :
                           /\ FirstListed(r, Touching(E[i]))
                           /\ FirstListed(q, Touching(E[j]))
                           /\ r < q
            /\ files = ExampleFiles => tree = <<ExampleSrc, ExampleReadme>>

\* C4 amended: the builder sorts the records by path first, so siblings are
\* in the order of their first occurrence in the path-sorted list, and the
\* example listing yields README.md followed by src (main.mo, types.mo).
C4_SortedOrder ==
    Built =>
        LET E == Entries
        IN  /\ \A i, j \in 1..Len(E) :
                   (i < j /\ Siblings(E[i], E[j])) =>
                       \E r \in Touching(E[i]), q \in Touching(E[j]) :
                           /\ FirstByPath(r, Touching(E[i]))
                           /\ FirstByPath(q, Touching(E[j]))
                           /\ localeCompare(files[r].path, files[q].path) < 0
            /\ files = ExampleFiles => tree = <<ExampleReadme, ExampleSrc>>

\* The example listing, which is not in path order, has been built.
C4_Witness ==
    /\ Built
    /\ files = ExampleFiles
    /\ Len(tree) = 2

\* ------------------------------------------------------ the backend wire

\* The six error kinds of the backend's Result.Err.
ErrorKinds ==
    {"NotFound", "Unauthorized", "BadRequest", "Conflict", "Forbidden", "InternalError"}

\* A field that the wire record does not carry (undefined).
Missing == "undefined"

\* Wire repository records: complete ones, one without owner, one without id.
WireRepositories ==
    { [id |-> "repo_1", name |-> "alpha", owner |-> "p1"],
      [id |-> "repo_2", name |-> "beta", owner |-> "p2"],
      [id |-> "repo_3", name |-> "gamma", owner |-> Missing],
      [id |-> Missing, name |-> "delta", owner |-> "p2"] }

\* Listings of up to MaxRepos wire records.
WireListings == ListsOver(WireRepositories, MaxRepos)

\* The file listings a listFiles reply carries.
WireFileListings == {<<>>, ExampleFiles, OnlyMarkerOf("a")}

\* The content field of a file entry: a string, a number array, or neither.
WireContents == {<<[type |-> "string"]>>, <<[type |-> "array"]>>, <<[type |-> "other"]>>}

\* A present payload; a payload whose records lack the fields the caller
\* reads (a file entry without path).
Payload(items) == [null |-> FALSE, malformed |-> FALSE, items |-> items]

Garbled == [null |-> FALSE, malformed |-> TRUE, items |-> <<>>]

\* What the canister call does: returns {Ok: data}, returns {Err: kind}, or
\* throws (transport failure).
OkReply(data) == [tag |-> "Ok", data |-> data, kind |-> ""]

ErrReply(kind) == [tag |-> "Err", data |-> NoData, kind |-> kind]

ThrowReply == [tag |-> "Throw", data |-> NoData, kind |-> ""]

Replies(payloads) ==
    {OkReply(d) : d \in payloads \cup {NoData}}
        \cup {ErrReply(k) : k \in ErrorKinds} \cup {ThrowReply}

\* this.actor.method(...): a null actor makes the call throw a TypeError.
ActorReply(reply) == IF actor = Null THEN ThrowReply ELSE reply

\* The wrapper every ApiService operation applies to the canister's reply.
ApiResult(reply) ==
    IF reply.tag = "Ok" THEN [success |-> TRUE, data |-> reply.data, error |-> ""]
    ELSE IF reply.tag = "Err"
         THEN [success |-> FALSE, data |-> NoData, error |-> reply.kind]
         ELSE [success |-> FALSE, data |-> NoData, error |-> "InternalError"]

\* result.success && result.data
SuccessWithData(resp) == resp.success /\ ~resp.data.null

\* ------------------------------------------------------ promise outcomes

Resolved(c, source, payload) ==
    [c EXCEPT !.pc = "done", !.settled = "resolved",
              !.value = [source |-> source, payload |-> payload]]

Rejected(c) ==
    [c EXCEPT !.pc = "done", !.settled = "rejected", !.value = NoValue]

Done == call.pc = "done"

\* ------------------------------------------------------- ApiService.init

\* setupActor() / setupAnonymousActor(): both succeed, new HttpAgent throws
\* (neither field is assigned), or Actor.createActor throws (the agent is
\* assigned, the actor is not).
SetupOutcomes == {"ok", "noAgent", "noActor"}

\* this.agent and this.actor after a setup for the given identity.
AgentAfter(setup, identity, old) == IF setup = "noAgent" THEN old ELSE identity

ActorAfter(setup, identity, old) == IF setup = "ok" THEN identity ELSE old

InitOutcomes ==
    [create : BOOLEAN, authenticated : BOOLEAN, setup : SetupOutcomes, healthy : BOOLEAN]

\* The assignments of apiService.init(), which never throws.  AuthClient.create
\* may fail; otherwise isAuthenticated is read from the auth client, the
\* matching actor is set up (which may fail and leave actor as it was) and
\* the health check sets isBackendAvailable.  currentUser is not assigned.
initFields(o) ==
    IF ~o.create
    THEN /\ isBackendAvailable' = FALSE
         /\ UNCHANGED <<authClient, actor, agent, isAuthenticated>>
    ELSE LET identity == IF o.authenticated THEN "authenticated" ELSE "anonymous"
         IN  /\ authClient' = "client"
             /\ isAuthenticated' = o.authenticated
             /\ agent' = AgentAfter(o.setup, identity, agent)
             /\ actor' = ActorAfter(o.setup, identity, actor)
             /\ isBackendAvailable' = (o.setup = "ok" /\ o.healthy)

\* await apiService.init() inside a service call.
init(o) ==
    /\ call.pc = "init"
    /\ initFields(o)
    /\ call' = [call EXCEPT !.pc = "request"]
    /\ UNCHANGED <<currentUser, treeVars, again, normVars, login, last, retry, viewVars>>

\* The start of every fetch: if (!apiService.actor) await apiService.init()
Begin(op, arg) ==
    /\ call.pc = "idle"
    /\ call' = [Idle EXCEPT !.op = op, !.arg = arg,
                            !.pc = IF actor = Null THEN "init" ELSE "request"]
    /\ UNCHANGED <<apiVars, treeVars, again, normVars, sessionVars, retry, viewVars>>

\* The caller has taken the settled promise.
Return ==
    /\ Done
    /\ call' = Idle
    /\ UNCHANGED <<apiVars, treeVars, again, normVars, sessionVars, retry, viewVars>>

\* ------------------------------------------------ FileService.getFileTree

\* fileService.getMockFileTree(repositoryId).tree
MockFile(path, size) ==
    [path |-> path, name |-> LastSegment(path), isFolder |-> FALSE, size |-> size]

getMockFileTree ==
    << [path |-> <<"src">>, name |-> "src", isFolder |-> TRUE, size |-> 0,
        children |-> << MockFile(<<"src", "main.mo">>, 2048),
                        MockFile(<<"src", "types.mo">>, 1024) >>],
       MockFile(<<"README.md">>, 4096),
       MockFile(<<"dfx.json">>, 512) >>

getFileTree_call == Begin("getFileTree", "repo_1")

\* A getFileTree whose catch block rethrows instead of returning the mock.
getFileTree_return_rethrows(c, resp) ==
    IF SuccessWithData(resp) /\ ~resp.data.malformed
    THEN Resolved(c, "backend", buildTreeFromFiles(resp.data.items))
    ELSE Rejected(c)

\* What getFileTree returns once apiService.listFiles has answered: a tree
\* built from the listing on success (an exception while building is caught
\* like any other), the mock tree otherwise.
getFileTree_return(c, resp) ==
    IF SuccessWithData(resp) /\ ~resp.data.malformed
    THEN Resolved(c, "backend", buildTreeFromFiles(resp.data.items))
    ELSE Resolved(c, "mock", getMockFileTree)

\* const result = await apiService.listFiles(repositoryId, path), and the
\* rest of getFileTree.
getFileTree_listFiles ==
    /\ call.op = "getFileTree" /\ call.pc = "request"
    /\ \E reply \in Replies({Payload(l) : l \in WireFileListings} \cup {Garbled}) :
           LET resp == ApiResult(ActorReply(reply))
               c == [call EXCEPT !.resp = resp, !.from = "listFiles",
                                 !.listFilesCalls = @ + 1]
           IN  call' = getFileTree_return(c, resp)
    /\ UNCHANGED <<apiVars, treeVars, again, normVars, sessionVars, retry, viewVars>>

\* --------------------------------------------- FileService.getFileContent

getFileContent_call == Begin("getFileContent", "repo_1")

\* The string getFileContent returns for a file entry's content.
ContentText(content) ==
    IF content.type = "string" THEN <<"content">>
    ELSE IF content.type = "array" THEN <<"decoded content">>
    ELSE <<"File content cannot be displayed">>

getFileContent_return(c, resp) ==
    IF SuccessWithData(resp)
    THEN Resolved(c, "backend", ContentText(resp.data.items[1]))
    ELSE Resolved(c, "mock", <<"mock content">>)

\* const result = await apiService.getFile(repositoryId, filePath), and the
\* rest of getFileContent.
getFileContent_getFile ==
    /\ call.op = "getFileContent" /\ call.pc = "request"
    /\ \E reply \in Replies({Payload(w) : w \in WireContents}) :
           LET resp == ApiResult(ActorReply(reply))
           IN  call' = getFileContent_return(
                           [call EXCEPT !.resp = resp, !.from = "getFile"], resp)
    /\ UNCHANGED <<apiVars, treeVars, again, normVars, sessionVars, retry, viewVars>>

\* --------------------------------------- normalizing repository records

\* Principal.toString(): the principal's textual form.
PrincipalText(principal) == <<"text", principal>>

\* repo.owner.toString() throws when the record has no owner.
Throws(repo) == repo.owner = Missing

\* The object literal the services build from one wire record.
Normalize(repo) ==
    [id |-> repo.id, name |-> repo.name, owner |-> PrincipalText(repo.owner)]

\* repositories.map(repo => ({...})) throws as soon as one record throws.
MapThrows(listing) == \E k \in 1..Len(listing) : Throws(listing[k])

MapRepositories(listing) == [k \in 1..Len(listing) |-> Normalize(listing[k])]

\* The ids handed to getRepository: RepositoryIdManager.normalize(id) throws
\* 'Repository ID is required' for the empty one.
RepositoryIds == {"", "repo_1"}

\* getMockRepositories().repositories
getMockRepositories ==
    <<[id |-> "repo_1", name |-> "cross-chain-defi", owner |-> "alice.icp"]>>

\* ------------------------------------------ RepositoryService.getRepository

getRepository_call == \E id \in RepositoryIds : Begin("getRepository", id)

\* What getRepository does with the answer of apiService.getRepository: the
\* normalized record on success, otherwise the catch block rethrows.
getRepository_return(c, resp) ==
    IF SuccessWithData(resp) /\ ~Throws(resp.data.items[1])
    THEN Resolved(c, "backend", <<Normalize(resp.data.items[1])>>)
    ELSE Rejected(c)

\* RepositoryIdManager.normalize(id), await apiService.getRepository(id) and
\* the rest of getRepository.
getRepository_getRepository ==
    /\ call.op = "getRepository" /\ call.pc = "request"
    /\ IF call.arg = ""
       THEN call' = Rejected(call)
       ELSE \E reply \in Replies({Payload(<<w>>) : w \in WireRepositories}) :
                LET resp == ApiResult(ActorReply(reply))
                IN  call' = getRepository_return(
                                [call EXCEPT !.resp = resp, !.from = "getRepository"], resp)
    /\ UNCHANGED <<apiVars, treeVars, again, normVars, sessionVars, retry, viewVars>>

\* ---------------------------------------- RepositoryService.getRepositories

\* The principals a registered user record may carry.
Users == {"p1"}

getRepositories_call == Begin("getRepositories", "")

\* The code between "await apiService.init()" and the next await: without
\* an actor the catch block answers with the mock listing; an authenticated
\* session loads its user or lists the user's repositories; everyone else
\* lists the public repositories.
getRepositories_dispatch ==
    /\ call.op = "getRepositories" /\ call.pc = "request"
    /\ call' =
         IF actor = Null THEN Resolved(call, "mock", getMockRepositories)
         ELSE IF isAuthenticated /\ currentUser = Null
              THEN [call EXCEPT !.pc = "getCurrentUser"]
         ELSE IF isAuthenticated
              THEN [call EXCEPT !.pc = "listRepositories"]
         ELSE [call EXCEPT !.pc = "listPublicRepositories"]
    /\ UNCHANGED <<apiVars, treeVars, again, normVars, sessionVars, retry, viewVars>>

\* apiService.currentUser = await apiService.getCurrentUser(): the user on
\* Ok, null on Err or on an exception.
getRepositories_getCurrentUser ==
    /\ call.op = "getRepositories" /\ call.pc = "getCurrentUser"
    /\ \E reply \in Replies({Payload(<<u>>) : u \in Users}) :
           LET r == ActorReply(reply)
               user == IF isAuthenticated /\ r.tag = "Ok" /\ ~r.data.null
                       THEN r.data.items[1] ELSE Null
           IN  /\ currentUser' = user
               /\ call' = [call EXCEPT !.pc = IF user = Null
                                              THEN "listPublicRepositories"
                                              ELSE "listRepositories"]
    /\ UNCHANGED <<actor, isAuthenticated, isBackendAvailable, treeVars, again,
                   normVars, sessionVars, retry, viewVars>>

\* await apiService.listRepositories(currentUser.principal, ...): on success
\* the user's records are normalized (an exception there is caught by the
\* inner try and leads to the public listing, as a failed call does).
getRepositories_listRepositories ==
    /\ call.op = "getRepositories" /\ call.pc = "listRepositories"
    /\ \E reply \in Replies({Payload(l) : l \in WireListings}) :
           LET resp == ApiResult(ActorReply(reply))
               c == [call EXCEPT !.resp = resp, !.from = "listRepositories"]
           IN  call' =
                 IF SuccessWithData(resp) /\ ~MapThrows(resp.data.items)
                 THEN [c EXCEPT !.pc = "listPublicAlso",
                                !.userRepositories = MapRepositories(resp.data.items)]
                 ELSE [c EXCEPT !.pc = "listPublicRepositories"]
    /\ UNCHANGED <<apiVars, treeVars, again, normVars, sessionVars, retry, viewVars>>

\* The public records that are not the current user's own.
OthersOf(listing, user) ==
    SelectSeq(listing, LAMBDA repo : PrincipalText(repo.owner) # PrincipalText(user))

\* await apiService.listPublicRepositories(...) after the user's own: on
\* success the user's and the other public records are returned together,
\* on failure the user's alone; an exception in filter/map is caught by the
\* inner try and leads to the anonymous listing.
getRepositories_listPublicAlso ==
    /\ call.op = "getRepositories" /\ call.pc = "listPublicAlso"
    /\ \E reply \in Replies({Payload(l) : l \in WireListings}) :
           LET resp == ApiResult(ActorReply(reply))
               c == [call EXCEPT !.resp = resp, !.from = "listPublicAlso"]
           IN  call' =
                 IF SuccessWithData(resp) /\ currentUser # Null
                 THEN IF MapThrows(resp.data.items)
                      THEN [c EXCEPT !.pc = "listPublicRepositories"]
                      ELSE Resolved(c, "backend",
                               call.userRepositories
                                   \o MapRepositories(OthersOf(resp.data.items, currentUser)))
                 ELSE Resolved(c, "backend", call.userRepositories)
    /\ UNCHANGED <<apiVars, treeVars, again, normVars, sessionVars, retry, viewVars>>

\* A getRepositories whose catch block rethrows, as getRepository's does.
getRepositories_return_rethrows(c, resp) ==
    IF SuccessWithData(resp) /\ ~MapThrows(resp.data.items)
    THEN Resolved(c, "backend", MapRepositories(resp.data.items))
    ELSE Rejected(c)

\* What getRepositories returns for the answer of the anonymous
\* listPublicRepositories call: the normalized listing on success; a failed
\* call, or an exception while normalizing, ends in the catch block, which
\* returns the mock listing.
getRepositories_return(c, resp) ==
    IF SuccessWithData(resp) /\ ~MapThrows(resp.data.items)
    THEN Resolved(c, "backend", MapRepositories(resp.data.items))
    ELSE Resolved(c, "mock", getMockRepositories)

getRepositories_listPublicRepositories ==
    /\ call.op = "getRepositories" /\ call.pc = "listPublicRepositories"
    /\ \E reply \in Replies({Payload(l) : l \in WireListings}) :
           LET resp == ApiResult(ActorReply(reply))
           IN  call' = getRepositories_return(
                           [call EXCEPT !.resp = resp, !.from = "listPublicRepositories"],
                           resp)
    /\ UNCHANGED <<apiVars, treeVars, again, normVars, sessionVars, retry, viewVars>>

\* ------------------------------------------------- the services' machine

ServiceInit ==
    /\ files = <<>>
    /\ tree = NoTree
    /\ pc = "listed"
    /\ ApiConstructed
    /\ call = Idle
    /\ Untouched

ServiceNext ==
    \/ \E o \in InitOutcomes : init(o)
    \/ Return
    \/ getFileTree_call
    \/ getFileTree_listFiles
    \/ getFileContent_call
    \/ getFileContent_getFile
    \/ getRepository_call
    \/ getRepository_getRepository
    \/ getRepositories_call
    \/ getRepositories_dispatch
    \/ getRepositories_getCurrentUser
    \/ getRepositories_listRepositories
    \/ getRepositories_listPublicAlso
    \/ getRepositories_listPublicRepositories

ServiceSpec == ServiceInit /\ [][ServiceNext]_vars

\* ------------------------------------------------------------------- C8

Finished(op) == Done /\ call.op = op

\* C8: getFileTree never rejects; it makes exactly one listFiles attempt;
\* when that attempt throws, fails or succeeds without data the result is
\* the fixed mock tree; a tree from the backend is the tree built from the
\* listing of a successful response.
C8_GetFileTreeFallsBack ==
    Finished("getFileTree") =>
        /\ call.settled = "resolved"
        /\ call.listFilesCalls = 1
        /\ ~SuccessWithData(call.resp) =>
               call.value = [source |-> "mock", payload |-> getMockFileTree]
        /\ call.value.source = "backend" =>
               /\ SuccessWithData(call.resp)
               /\ call.value.payload = buildTreeFromFiles(call.resp.data.items)

\* A failed listFiles call has been answered with the mock tree.
C8_Witness ==
    /\ Finished("getFileTree")
    /\ call.resp.error \in ErrorKinds
    /\ call.value.source = "mock"

\* ------------------------------------------------------------------- C9

FetchOperations == {"getRepositories", "getRepository", "getFileTree", "getFileContent"}

\* The backend call of the finished fetch failed or returned an Err variant.
BackendFailed == call.from # "" /\ ~call.resp.success

Complete(repo) == repo.id # Missing /\ repo.name # Missing /\ repo.owner # Missing

\* C10: when a record of a public listing lacks a mandatory field, the
\* result is still taken from the backend and holds the normalized other
\* records: only the defective record is left out.
C10_OnlyDefectiveRecordDropped ==
    (/\ Finished("getRepositories")
     /\ call.from = "listPublicRepositories"
     /\ SuccessWithData(call.resp))
        => /\ call.value.source = "backend"
           /\ call.value.payload =
                  MapRepositories(SelectSeq(call.resp.data.items, Complete))

\* ---------------------------------------------- option fields, timestamps

\* An option-encoded wire field: the field may be absent from the record
\* (undefined); otherwise it is a sequence of zero or one element.
OptionAbsent == [missing |-> TRUE, items |-> <<>>]

OptionOf(items) == [missing |-> FALSE, items |-> items]

\* The elements an option carries; '' is a legal element.
OptionTexts == {"", "text"}

Options == {OptionAbsent, OptionOf(<<>>)} \cup {OptionOf(<<t>>) : t \in OptionTexts}

\* array[0]: undefined beyond the end of the array.
First(items) == IF Len(items) > 0 THEN items[1] ELSE Missing

\* A variant that takes an element only from longer sequences.
Unwrap_needsTwo(f) ==
    IF ~f.missing /\ Len(f.items) > 1 THEN First(f.items) ELSE Missing

\* f && f.length > 0 ? f[0] : undefined
Unwrap(f) ==
    IF ~f.missing /\ Len(f.items) > 0 THEN First(f.items) ELSE Missing

\* f?.[0]
OptionalFirst(f) == IF f.missing THEN Missing ELSE First(f.items)

\* repo.settings: absent, or a record with the option field license.
WireSettings ==
    {[missing |-> TRUE, license |-> OptionAbsent]}
        \cup {[missing |-> FALSE, license |-> l] : l \in Options}

\* repo.settings && repo.settings.license && repo.settings.license.length > 0
\*     ? repo.settings.license[0] : undefined
License(settings) == IF settings.missing THEN Missing ELSE Unwrap(settings.license)

\* Nanoseconds in a millisecond: the divisor of the timestamp conversions.
NanosPerMilli == 1000000

\* Wire timestamps: a nanosecond count as a JavaScript number, as a bigint
\* (what the agent decodes a Candid Int into) or as a decimal string.
Encodings == {"number", "bigint", "string"}

Nanos == {0, 1500000, 2000000}

WireTimestamps == [type : Encodings, nanos : Nanos]

\* The values Date.now() returns, in milliseconds.
Clock == {7, 8}

\* A normalized time: milliseconds and the fraction of a millisecond left
\* over (in nanoseconds), held as a number or as an ISO 8601 string.
Time(type, ms, frac) == [type |-> type, ms |-> ms, frac |-> frac]

\* new Date(Number(t) / 1000000).toISOString(): Number() reads all three
\* encodings, the Date constructor drops the fraction of the quotient.
ISOString(t) == Time("iso", t.nanos \div NanosPerMilli, 0)

\* typeof t === 'number' ? t / 1000000 : Date.now()
\* The division is a floating-point one and keeps the fraction.
lastModified(t, now) ==
    IF t.type = "number"
    THEN Time("number", t.nanos \div NanosPerMilli, t.nanos % NanosPerMilli)
    ELSE Time("number", now, 0)

\* The repository records a normalizer is handed.
FullWireRepositories ==
    [kind : {"repository"}, id : {"repo_1"}, name : {"alpha"}, owner : {"p1", Missing},
     description : Options, language : Options, settings : WireSettings,
     createdAt : WireTimestamps, updatedAt : {[type |-> "bigint", nanos |-> 2000000]}]

\* The object literal of RepositoryService.getRepository, in full.
RepositoryOf(repo) ==
    IF Throws(repo) THEN [kind |-> "threw"]
    ELSE [kind |-> "repository"] @@ Normalize(repo) @@
         [description |-> Unwrap(repo.description),
          language |-> Unwrap(repo.language),
          license |-> License(repo.settings),
          createdAt |-> ISOString(repo.createdAt),
          updatedAt |-> ISOString(repo.updatedAt)]

\* The file entries a normalizer is handed.
WireFileEntries ==
    [kind : {"file"}, path : {<<"a", "b">>}, size : FileSizes,
     lastModified : WireTimestamps, commitMessage : Options, mimeType : Options,
     parentPath : Options]

\* FileService.transformFileEntry(entry)
transformFileEntry(entry, now) ==
    [kind |-> "entry", path |-> entry.path, name |-> LastSegment(entry.path),
     size |-> entry.size,
     lastModified |-> lastModified(entry.lastModified, now),
     commitMessage |-> OptionalFirst(entry.commitMessage),
     mimeType |-> OptionalFirst(entry.mimeType),
     parentPath |-> OptionalFirst(entry.parentPath)]

\* The node buildTreeFromFiles makes of a record, with its timestamp.
StampedFileNode(file, now) ==
    [kind |-> "node"] @@ FileNode(file) @@
    [lastModified |-> lastModified(file.lastModified, now)]

\* --------------------------------------------- the normalizers' machine

NormalizeInit ==
    /\ Unviewed
    /\ wire \in FullWireRepositories \cup WireFileEntries
    /\ normalized = NotNormalized
    /\ files = <<>>
    /\ tree = NoTree
    /\ pc = "listed"
    /\ ApiConstructed
    /\ call = Idle
    /\ login = NoLogin
    /\ last = NoOp
    /\ retry = NoRetry
    /\ again = NoTree

NormalizeFrame == <<wire, treeVars, apiVars, call, again, sessionVars, retry, viewVars>>

NormalizeRepository ==
    /\ wire.kind = "repository" /\ normalized = NotNormalized
    /\ normalized' = RepositoryOf(wire)
    /\ UNCHANGED NormalizeFrame

TransformFileEntry ==
    /\ wire.kind = "file" /\ normalized = NotNormalized
    /\ \E now \in Clock : normalized' = transformFileEntry(wire, now)
    /\ UNCHANGED NormalizeFrame

MakeFileNode ==
    /\ wire.kind = "file" /\ normalized = NotNormalized
    /\ \E now \in Clock : normalized' = StampedFileNode(wire, now)
    /\ UNCHANGED NormalizeFrame

NormalizeNext == NormalizeRepository \/ TransformFileEntry \/ MakeFileNode

NormalizeSpec == NormalizeInit /\ [][NormalizeNext]_vars

\* ------------------------------------------------------------------ C11

\* What the option encoding means: absent for an empty or missing sequence,
\* the single element otherwise.
Meaning(f) == IF f.missing \/ f.items = <<>> THEN Missing ELSE f.items[1]

\* C11: each option-encoded field of a repository record (description,
\* language, settings.license) and of a file entry (commitMessage, mimeType,
\* parentPath) is normalized to absent when the wire sequence is empty or
\* missing and to its single element otherwise, and normalization fails only
\* for a record without owner, never for an absent optional field.
C11_OptionFields ==
    /\ normalized.kind = "repository" =>
           /\ normalized.description = Meaning(wire.description)
           /\ normalized.language = Meaning(wire.language)
           /\ normalized.license =
                  (IF wire.settings.missing THEN Missing
                   ELSE Meaning(wire.settings.license))
    /\ normalized.kind = "entry" =>
           /\ normalized.commitMessage = Meaning(wire.commitMessage)
           /\ normalized.mimeType = Meaning(wire.mimeType)
           /\ normalized.parentPath = Meaning(wire.parentPath)
    /\ normalized.kind = "threw" => wire.owner = Missing

\* A repository record with an empty description, a present language and no
\* settings at all has been normalized.
C11_Witness ==
    /\ normalized.kind = "repository"
    /\ wire.description = OptionOf(<<>>)
    /\ wire.language = OptionOf(<<"text">>)
    /\ wire.settings.missing
    /\ normalized.description = Missing
    /\ normalized.language = "text"

\* ------------------------------------------------------------------ C12

\* The integer quotient of a nanosecond count by 1,000,000, in milliseconds.
Millis(t) == t.nanos \div NanosPerMilli

IsMillis(time, t) == time.ms = Millis(t) /\ time.frac = 0

\* C12: every nanosecond timestamp of a wire record (a file's lastModified,
\* a repository's createdAt and updatedAt), whatever its wire encoding, is
\* normalized to the integer quotient of its value by 1,000,000.
C12_TimestampsInMillis ==
    /\ normalized.kind = "repository" =>
           /\ IsMillis(normalized.createdAt, wire.createdAt)
           /\ IsMillis(normalized.updatedAt, wire.updatedAt)
    /\ normalized.kind \in {"entry", "node"} =>
           IsMillis(normalized.lastModified, wire.lastModified)

\* ------------------------------------------- the ApiService singleton

\* What a step leaves alone besides the singleton's own fields.
ApiFrame == <<treeVars, call, again, normVars, retry, viewVars>>

\* The record of a step that has just run.
Ran(op, reply, outcome, success, value, error, setup) ==
    [op |-> op, reply |-> reply, outcome |-> outcome, success |-> success,
     value |-> value, error |-> error, setup |-> setup, before |-> Fields]

\* await apiService.init() as an operation of its own: resolves true.
ApiService_init ==
    /\ \E o \in InitOutcomes :
           /\ initFields(o)
           /\ last' = Ran("init", "none", "resolved", TRUE, "true", "",
                          IF o.create THEN o.setup ELSE "none")
    /\ UNCHANGED <<currentUser, login, ApiFrame>>

\* apiService.login() up to the return of the promise: the executor calls
\* this.authClient.login(...), which throws when init() never built an auth
\* client; the exception rejects the promise (it is returned, not awaited,
\* so the catch block does not see it).
login_call ==
    /\ login.pc \in {"idle", "abandoned"}
    /\ login' = IF authClient = Null
                THEN [pc |-> "done", settled |-> "rejected", value |-> FALSE,
                      setup |-> "none"]
                ELSE [pc |-> "waiting", settled |-> "pending", value |-> FALSE,
                      setup |-> "none"]
    /\ last' = Ran("login_call", "none",
                   IF authClient = Null THEN "rejected" ELSE "pending",
                   FALSE, "none", "", "none")
    /\ UNCHANGED <<apiVars, agent, authClient, ApiFrame>>

\* A login whose onSuccess resolves before the actor is set up.
LoginAfterSuccess_resolvesFirst(setup) ==
    [pc |-> "done", settled |-> "resolved", value |-> TRUE, setup |-> setup]

\* The promise after onSuccess: resolve(true) follows "await
\* this.setupActor()"; when setupActor throws, the callback ends with the
\* exception and resolve is never called.
LoginAfterSuccess(setup) ==
    IF setup = "ok"
    THEN [pc |-> "done", settled |-> "resolved", value |-> TRUE, setup |-> setup]
    ELSE [pc |-> "abandoned", settled |-> "pending", value |-> FALSE, setup |-> setup]

\* The identity provider invokes onSuccess.
login_onSuccess ==
    /\ login.pc = "waiting"
    /\ \E setup \in SetupOutcomes :
           /\ isAuthenticated' = TRUE
           /\ agent' = AgentAfter(setup, "authenticated", agent)
           /\ actor' = ActorAfter(setup, "authenticated", actor)
           /\ login' = LoginAfterSuccess(setup)
           /\ last' = Ran("login", "onSuccess", login'.settled, login'.value,
                          IF login'.settled = "resolved" THEN "true" ELSE "none",
                          "", setup)
    /\ UNCHANGED <<currentUser, isBackendAvailable, authClient, ApiFrame>>

\* The identity provider invokes onError: resolve(false).
login_onError ==
    /\ login.pc = "waiting"
    /\ login' = [pc |-> "done", settled |-> "resolved", value |-> FALSE,
                 setup |-> "none"]
    /\ last' = Ran("login", "onError", "resolved", FALSE, "false", "", "none")
    /\ UNCHANGED <<apiVars, agent, authClient, ApiFrame>>

\* The caller of login() has taken the settled promise.
login_return ==
    /\ login.pc = "done"
    /\ login' = NoLogin
    /\ last' = Ran("login_return", "none", login.settled, login.value, "none", "",
                   "none")
    /\ UNCHANGED <<apiVars, agent, authClient, ApiFrame>>

\* apiService.logout().  this.authClient.logout() throws without an auth
\* client and may fail at the provider: the catch block returns false.
\* Otherwise the four fields are cleared and setupAnonymousActor() runs; when
\* that throws, the catch block returns false as well.
logout ==
    /\ \E ok \in BOOLEAN, setup \in SetupOutcomes :
           IF authClient = Null \/ ~ok
           THEN /\ last' = Ran("logout", IF authClient = Null THEN "Throw" ELSE "Err",
                               "resolved", FALSE, "false", "", "none")
                /\ UNCHANGED <<apiVars, agent>>
           ELSE /\ isAuthenticated' = FALSE
                /\ currentUser' = Null
                /\ agent' = AgentAfter(setup, "anonymous", Null)
                /\ actor' = ActorAfter(setup, "anonymous", Null)
                /\ last' = Ran("logout", "Ok", "resolved", setup = "ok",
                               IF setup = "ok" THEN "true" ELSE "false", "", setup)
                /\ UNCHANGED isBackendAvailable
    /\ UNCHANGED <<authClient, login, ApiFrame>>

\* What the canister answers: Ok, Err with one of the six kinds, or the
\* call throws.
BackendReplies ==
    {OkReply(NoData), ThrowReply} \cup {ErrReply(k) : k \in ErrorKinds}

\* apiService.getCurrentUser(): null when not authenticated; otherwise the
\* user on Ok (stored in currentUser), null on Err or on an exception.
getCurrentUser ==
    /\ \E reply \in BackendReplies :
           LET r == ActorReply(reply)
           IN  IF isAuthenticated /\ r.tag = "Ok"
               THEN /\ currentUser' = "p1"
                    /\ last' = Ran("getCurrentUser", r.tag, "resolved", TRUE, "user",
                                   "", "none")
               ELSE /\ last' = Ran("getCurrentUser",
                                   IF isAuthenticated THEN r.tag ELSE "none",
                                   "resolved", FALSE, "null", "", "none")
                    /\ UNCHANGED currentUser
    /\ UNCHANGED <<actor, isAuthenticated, isBackendAvailable, agent, authClient, login,
                   ApiFrame>>

\* throw new Error('Must be authenticated to ...')
MustBeAuthenticated == "Must be authenticated"

\* The operations that store the user the backend returned.
UserOperations == {"registerUser", "updateUserProfile"}

\* apiService.registerUser(userData) and updateUserProfile(profileData):
\* they throw when not authenticated, otherwise wrap the backend's answer
\* and store the user of an Ok answer in currentUser.
storeUser ==
    /\ \E op \in UserOperations, reply \in BackendReplies :
           IF ~isAuthenticated
           THEN /\ last' = Ran(op, "none", "rejected", FALSE, "none",
                               MustBeAuthenticated, "none")
                /\ UNCHANGED currentUser
           ELSE LET r == ActorReply(reply)
                    res == ApiResult(r)
                IN  /\ currentUser' = IF r.tag = "Ok" THEN "p1" ELSE currentUser
                    /\ last' = Ran(op, r.tag, "resolved", res.success,
                                   IF res.success THEN "data" ELSE "undefined",
                                   res.error, "none")
    /\ UNCHANGED <<actor, isAuthenticated, isBackendAvailable, agent, authClient, login,
                   ApiFrame>>

\* Operations that wrap the backend's answer without further ado, and
\* those that first demand an authenticated session.
PlainOperations == {"getRepository", "listFiles", "listPublicRepositories"}

GuardedOperations ==
    {"createRepository", "updateRepository", "deleteRepository", "deleteFile"}

\* try { result = await this.actor.op(...); 'Ok' in result ? ... } catch ...
wrapBackend ==
    /\ \E op \in PlainOperations \cup GuardedOperations, reply \in BackendReplies :
           IF op \in GuardedOperations /\ ~isAuthenticated
           THEN last' = Ran(op, "none", "rejected", FALSE, "none",
                            MustBeAuthenticated, "none")
           ELSE LET r == ActorReply(reply)
                    res == ApiResult(r)
                IN  last' = Ran(op, r.tag, "resolved", res.success,
                                IF res.success THEN "data" ELSE "undefined",
                                res.error, "none")
    /\ UNCHANGED <<apiVars, agent, authClient, login, ApiFrame>>

\* The three operations defined last in the class, which replace the
\* earlier definitions of the same name.
LateOperations == {"getFileTree", "createFolder", "uploadFile"}

\* ApiService.getFileTree: success whatever the variant, the nodes of an Ok
\* answer or an empty list; a thrown exception gives {success: false,
\* error: error.message}.
getFileTreeResult(r) ==
    IF r.tag = "Throw" THEN [success |-> FALSE, value |-> "undefined", error |-> "message"]
    ELSE [success |-> TRUE, value |-> "data", error |-> ""]

\* ApiService.createFolder and uploadFile: {success: result.Ok !== undefined,
\* data: result.Ok}, without an error field.
createFolderResult(r) ==
    IF r.tag = "Throw" THEN [success |-> FALSE, value |-> "undefined", error |-> "message"]
    ELSE IF r.tag = "Ok" THEN [success |-> TRUE, value |-> "data", error |-> ""]
    ELSE [success |-> FALSE, value |-> "undefined", error |-> ""]

\* The record of a late operation that got answer r from the backend.
LateRan(op, r, setup) ==
    LET res == IF op = "getFileTree" THEN getFileTreeResult(r)
               ELSE createFolderResult(r)
    IN  Ran(op, r.tag, "resolved", res.success, res.value, res.error, setup)

\* if (!this.actor) await this.init(); then the backend call, which throws
\* when init() left the actor null.
lateOperation ==
    /\ \E op \in LateOperations, reply \in BackendReplies :
           IF actor = Null
           THEN \E o \in InitOutcomes :
                    /\ initFields(o)
                    /\ last' = LateRan(op, IF actor' = Null THEN ThrowReply ELSE reply,
                                       IF o.create THEN o.setup ELSE "none")
           ELSE /\ last' = LateRan(op, reply, "none")
                /\ UNCHANGED <<actor, isAuthenticated, isBackendAvailable, agent,
                               authClient>>
    /\ UNCHANGED <<currentUser, login, ApiFrame>>

ApiInit ==
    /\ Unviewed
    /\ ApiConstructed
    /\ login = NoLogin
    /\ last = NoOp
    /\ files = <<>>
    /\ tree = NoTree
    /\ pc = "listed"
    /\ call = Idle
    /\ retry = NoRetry
    /\ wire = NoWire
    /\ normalized = NotNormalized
    /\ again = NoTree

ApiNext ==
    \/ ApiService_init
    \/ login_call
    \/ login_onSuccess
    \/ login_onError
    \/ login_return
    \/ logout
    \/ getCurrentUser
    \/ storeUser
    \/ wrapBackend
    \/ lateOperation

ApiSpec == ApiInit /\ [][ApiNext]_vars

\* ------------------------------------------------------------------ C13

BackendOperations ==
    PlainOperations \cup GuardedOperations \cup UserOperations \cup LateOperations

\* The step that ran last was a backend operation that called the backend.
CalledBackend == last.op \in BackendOperations /\ last.outcome # "rejected"

\* C13: an ApiService operation that calls the backend and is not rejected
\* by the authentication guard resolves to success exactly when the backend
\* returned Ok, and otherwise to a failure whose error is one of the six
\* kinds, a thrown exception being reported as InternalError.
C13_TaggedResult ==
    /\ last.op \in BackendOperations =>
           (last.outcome = "rejected" =>
                (last.op \in GuardedOperations \cup UserOperations
                     /\ ~last.before.isAuthenticated))
    /\ CalledBackend =>
           /\ last.outcome = "resolved"
           /\ last.success <=> last.reply = "Ok"
           /\ ~last.success => last.error \in ErrorKinds
           /\ last.reply = "Throw" => last.error = "InternalError"

\* ------------------------------------------------------------------ C17

\* C17: when login() resolves true, isAuthenticated is true and setupActor
\* has completed, so that the actor carries the authenticated identity; when
\* the identity provider reports an error, login() resolves false and
\* isAuthenticated and actor are as the callback found them.
C17_LoginResolvesAfterSetup ==
    last.op = "login" =>
        /\ (last.outcome = "resolved" /\ last.success) =>
               /\ isAuthenticated
               /\ last.setup = "ok"
               /\ actor = "authenticated"
               /\ agent = "authenticated"
        /\ last.reply = "onError" =>
               /\ last.outcome = "resolved" /\ ~last.success
               /\ isAuthenticated = last.before.isAuthenticated
               /\ actor = last.before.actor

\* A login has resolved true over an actor that was anonymous before.
C17_Witness ==
    /\ last.op = "login"
    /\ last.outcome = "resolved" /\ last.success
    /\ last.before.actor = "anonymous"
    /\ actor = "authenticated"

\* ------------------------------------------------------------------ C18

\* C18: once the identity provider has invoked onSuccess or onError, the
\* promise of login() is settled, also when setting up the actor afterwards
\* failed; isAuthenticated = true never goes with a promise left pending.
C18_LoginSettles ==
    last.op = "login" => last.outcome = "resolved"

\* ------------------------------------------------------------------ C19

\* C19: in every state reachable by init, login, logout, getCurrentUser,
\* registerUser and updateUserProfile, currentUser is non-null only if
\* isAuthenticated is true.
C19_UserOnlyWhenAuthenticated ==
    currentUser # Null => isAuthenticated

\* ------------------------------------------------------------------ C20

\* C20: a logout() that returns true leaves isAuthenticated false,
\* currentUser null and a newly created anonymous actor; a logout() that
\* returns false leaves isAuthenticated, currentUser, actor and agent as it
\* found them.
C20_LogoutAllOrNothing ==
    last.op = "logout" =>
        /\ last.success =>
               /\ ~isAuthenticated
               /\ currentUser = Null
               /\ last.setup = "ok"
               /\ actor = "anonymous"
        /\ ~last.success => Fields = last.before

\* ---------------------------------------------- ApiService.retryRequest

\* Largest maxRetries handed to retryRequest.
MaxRetries == 3

\* The delay argument, in milliseconds (1000 is the default).
Delays == {0, 500, 1000}

\* The errors a failed attempt of requestFn is rejected with.
RequestErrors == {"timeout", "refused"}

RetryFrame == <<treeVars, apiVars, call, again, normVars, sessionVars, viewVars>>

\* A wait that does not grow with the attempt.
WaitAfter_constant(delay, attempt) == delay

\* setTimeout(resolve, delay * attempt)
WaitAfter(delay, attempt) == delay * attempt

\* retryRequest(requestFn, maxRetries, delay) up to the first await: the
\* loop "for (attempt = 1; attempt <= maxRetries; attempt++)" is entered, or
\* skipped altogether, and then the function returns undefined.
retryRequest_call ==
    /\ retry.pc = "idle"
    /\ \E maxRetries \in 0..MaxRetries, delay \in Delays :
           retry' = IF 1 <= maxRetries
                    THEN [NoRetry EXCEPT !.pc = "attempting", !.maxRetries = maxRetries,
                                         !.delay = delay, !.attempt = 1]
                    ELSE [NoRetry EXCEPT !.pc = "done", !.maxRetries = maxRetries,
                                         !.delay = delay, !.attempt = 1,
                                         !.settled = "resolved", !.value = "undefined"]
    /\ UNCHANGED RetryFrame

\* await requestFn(): its result is returned; its error is rethrown by the
\* last attempt and followed by a wait otherwise.
retryRequest_attempt ==
    /\ retry.pc = "attempting"
    /\ \E outcome \in {"result"} \cup RequestErrors :
           LET r == [retry EXCEPT !.calls = @ + 1, !.outcomes = Append(@, outcome)]
           IN  retry' =
                 IF outcome = "result"
                 THEN [r EXCEPT !.pc = "done", !.settled = "resolved", !.value = outcome]
                 ELSE IF retry.attempt = retry.maxRetries
                      THEN [r EXCEPT !.pc = "done", !.settled = "rejected",
                                     !.value = outcome]
                      ELSE [r EXCEPT !.pc = "waiting",
                                     !.waits = Append(@, WaitAfter(retry.delay,
                                                                   retry.attempt))]
    /\ UNCHANGED RetryFrame

\* The timer has fired: attempt++ and the next round of the loop.
retryRequest_wake ==
    /\ retry.pc = "waiting"
    /\ retry' = [retry EXCEPT !.pc = "attempting", !.attempt = @ + 1]
    /\ UNCHANGED RetryFrame

\* The caller has taken the settled promise.
retryRequest_return ==
    /\ retry.pc = "done"
    /\ retry' = NoRetry
    /\ UNCHANGED RetryFrame

RetryInit ==
    /\ Unviewed
    /\ retry = NoRetry
    /\ ApiConstructed
    /\ login = NoLogin
    /\ last = NoOp
    /\ files = <<>>
    /\ tree = NoTree
    /\ pc = "listed"
    /\ call = Idle
    /\ wire = NoWire
    /\ normalized = NotNormalized
    /\ again = NoTree

RetryNext ==
    \/ retryRequest_call
    \/ retryRequest_attempt
    \/ retryRequest_wake
    \/ retryRequest_return

RetrySpec == RetryInit /\ [][RetryNext]_vars

\* ------------------------------------------------------------------ C16

\* The attempts made so far that failed.
FailedAttempts == {k \in 1..Len(retry.outcomes) : retry.outcomes[k] # "result"}

\* C16: with maxRetries >= 1, requestFn is invoked at most maxRetries
\* times; a successful attempt is the last one and its result is what the
\* promise resolves with; the promise is rejected only when all maxRetries
\* attempts failed, with the error of the last one; the wait after failed
\* attempt k is delay * k, and the last attempt is followed by no wait.
C16_BoundedLinearRetry ==
    retry.maxRetries >= 1 =>
        /\ retry.calls <= retry.maxRetries
        /\ retry.calls = Len(retry.outcomes)
        /\ \A k \in 1..Len(retry.outcomes) :
               retry.outcomes[k] = "result" =>
                   /\ k = Len(retry.outcomes)
                   /\ retry.pc = "done" /\ retry.settled = "resolved"
                   /\ retry.value = "result"
        /\ (retry.pc = "done" /\ retry.settled = "resolved") =>
               retry.outcomes[retry.calls] = "result"
        /\ (retry.pc = "done" /\ retry.settled = "rejected") =>
               /\ retry.calls = retry.maxRetries
               /\ FailedAttempts = 1..retry.maxRetries
               /\ retry.value = retry.outcomes[retry.maxRetries]
        /\ \A k \in 1..Len(retry.waits) : retry.waits[k] = retry.delay * k
        /\ Len(retry.waits) =
               Cardinality(FailedAttempts \ {retry.maxRetries})
        /\ retry.pc = "done" => Len(retry.waits) = retry.calls - 1

\* Three attempts, the first two failed with different errors and were
\* followed by waits of 1000 and 2000 ms, the third one succeeded.
C16_Witness ==
    /\ retry.pc = "done" /\ retry.settled = "resolved"
    /\ retry.maxRetries = 3
    /\ retry.outcomes = <<"timeout", "refused", "result">>
    /\ retry.waits = <<1000, 2000>>

\* ------------------------------------------------------------------ C14

\* The folder paths the loop computes for the records that are not markers.
FolderPaths ==
    UNION {{CurrentPathAt(files[r].path, i) : i \in 1..(Len(files[r].path) - 1)} :
               r \in RealRecords}

\* The folder objects the builder allocated.
FoldersMade(heap) == {id \in 1..Len(heap) : heap[id].isFolder}

\* C14: every folder node of the result is synthesized with isFolder = true
\* and size = 0 and is no input record; the builder makes exactly one folder
\* object, with an empty children list, per distinct folder path that its
\* loop computes, however many records lie beneath it, and no two folder
\* nodes of the result have the same path.
C14_FoldersSynthesizedOnce ==
    Built =>
        LET E == Entries
            st == BuildState(files)
            made == FoldersMade(st.heap)
        IN  /\ \A k \in 1..Len(E) :
                   E[k].isFolder =>
                       /\ E[k].size = 0
                       /\ E[k].path \in FolderPaths
                       /\ \A j \in 1..Len(E) :
                              (E[j].isFolder /\ E[j].path = E[k].path) => j = k
            /\ \A p \in FolderPaths :
                   FolderNode(p, p[Len(p)]).children = <<>>
            /\ \A id \in made :
                   /\ st.heap[id].size = 0
                   /\ \A other \in made :
                          st.heap[other].path = st.heap[id].path => other = id
            /\ {st.heap[id].path : id \in made} = FolderPaths
            /\ Cardinality(made) = Cardinality(FolderPaths)

\* Two records lie in the same folder and the result is that one folder.
C14_Witness ==
    /\ Built
    /\ Len(files) = 2
    /\ Len(files[1].path) = 2 /\ Len(files[2].path) = 2
    /\ files[1].path[1] = "a" /\ files[2].path[1] = "a"
    /\ RealRecords = {1, 2}
    /\ Len(tree) = 1
    /\ tree[1].isFolder /\ Len(tree[1].children) = 2

\* ------------------------------------------- building the same list twice

\* The listings with the timestamp the backend sends on every record.
RebuildTimestamps == [type : Encodings, nanos : {1500000}]

Stamped(fs, t) == [k \in 1..Len(fs) |-> fs[k] @@ [lastModified |-> t]]

StampedLists == {Stamped(fs, t) : fs \in InputLists, t \in RebuildTimestamps}

\* The record of the listing with the given path (paths are unique).
RecordAt(fs, path) == fs[CHOOSE k \in 1..Len(fs) : fs[k].path = path]

\* The nodes with their lastModified fields: a file node's from its record,
\* a folder node's from the clock. One reading of the clock serves a run.
RECURSIVE StampNodes(_, _, _)
StampNodes(nodes, fs, now) ==
    [k \in 1..Len(nodes) |->
        IF nodes[k].isFolder
        THEN [path |-> nodes[k].path, name |-> nodes[k].name, isFolder |-> TRUE,
              size |-> nodes[k].size, lastModified |-> Time("number", now, 0),
              children |-> StampNodes(nodes[k].children, fs, now)]
        ELSE nodes[k] @@
             [lastModified |->
                  lastModified(RecordAt(fs, nodes[k].path).lastModified, now)]]

\* buildTreeFromFiles(files), timestamps included, run at time now.
StampedTree(fs, now) == StampNodes(buildTreeFromFiles(fs), fs, now)

RebuildInit ==
    /\ Unviewed
    /\ files \in StampedLists
    /\ tree = NoTree
    /\ again = NoTree
    /\ pc = "listed"
    /\ ApiConstructed
    /\ call = Idle
    /\ login = NoLogin
    /\ last = NoOp
    /\ retry = NoRetry
    /\ wire = NoWire
    /\ normalized = NotNormalized

RebuildFrame == <<files, apiVars, call, normVars, sessionVars, retry, viewVars>>

\* The first run of the builder on the listing.
BuildStamped ==
    /\ pc = "listed"
    /\ \E now \in Clock : tree' = StampedTree(files, now)
    /\ pc' = "built"
    /\ UNCHANGED <<again, RebuildFrame>>

\* The second run, on the same listing, at the same time or later.
BuildAgain ==
    /\ pc = "built"
    /\ \E now \in Clock : again' = StampedTree(files, now)
    /\ pc' = "rebuilt"
    /\ UNCHANGED <<tree, RebuildFrame>>

RebuildNext == BuildStamped \/ BuildAgain

RebuildSpec == RebuildInit /\ [][RebuildNext]_vars

\* ------------------------------------------------------------------ C15

\* The tree with the timestamps of its folder nodes set aside.
RECURSIVE FolderTimesAside(_)
FolderTimesAside(nodes) ==
    [k \in 1..Len(nodes) |->
        IF nodes[k].isFolder
        THEN [nodes[k] EXCEPT !.lastModified = Time("aside", 0, 0),
                              !.children = FolderTimesAside(@)]
        ELSE nodes[k]]

\* C15: two runs of the builder on the same input list give the same tree
\* (the same nodes, the same nesting, the same sibling order), the
\* timestamps of the synthesized folders aside.
C15_SameTreeTwice ==
    pc = "rebuilt" => FolderTimesAside(tree) = FolderTimesAside(again)

\* ------------------------------------------------------------------ C21

\* The operations that change state at the backend.
StateChangingOperations == UserOperations \cup GuardedOperations \cup {"uploadFile"}

\* C21: while isAuthenticated is false, a state-changing operation
\* (registerUser, updateUserProfile, createRepository, updateRepository,
\* deleteRepository, uploadFile, deleteFile) fails with a 'Must be
\* authenticated' error and sends no request to the backend.
C21_NothingSentUnauthenticated ==
    (/\ last.op \in StateChangingOperations
     /\ ~last.before.isAuthenticated
     /\ ~isAuthenticated) =>
        /\ last.outcome = "rejected"
        /\ last.error = MustBeAuthenticated
        /\ last.reply = "none"

\* ------------------------------------------------------ WalletProvider

\* useState: wallet.connected false, loading true, error null; the effect
\* that calls initializeAuth has not run yet.
WalletMounted ==
    [pc |-> "mounting", connected |-> FALSE, loading |-> TRUE, error |-> Null,
     op |-> "none", success |-> FALSE]

WalletFrame ==
    <<treeVars, call, again, normVars, retry, login, last, explorer, debounced,
      searchService, uploads, detail>>

\* How a backend call of the provider ends.
ReplyTags == {"Ok", "Err", "Throw"}

\* this.actor.method(...) throws when the actor is null.
TagWith(a, tag) == IF a = Null THEN "Throw" ELSE tag

\* The provider when a call has returned: finally { setLoading(false) }.
WalletAfter(op, connected, error) ==
    [pc |-> "idle", connected |-> connected, loading |-> FALSE, error |-> error,
     op |-> op, success |-> error = Null]

\* initializeAuth(): apiService.init(), then, when a session is stored,
\* setWallet({connected: true, ...}) and getCurrentUser().
initializeAuth ==
    /\ walletProvider.pc = "mounting"
    /\ \E o \in InitOutcomes, tag \in ReplyTags :
           /\ initFields(o)
           /\ currentUser' = IF isAuthenticated' /\ TagWith(actor', tag) = "Ok"
                             THEN "p1" ELSE currentUser
           /\ walletProvider' = WalletAfter("initializeAuth", isAuthenticated', Null)
    /\ UNCHANGED WalletFrame

\* connect up to "await apiService.login()": without an auth client the
\* executor of the promise throws, the promise is rejected and the catch
\* block of connect reports the failure.
connect_call ==
    /\ walletProvider.pc = "idle"
    /\ walletProvider' =
           IF authClient = Null
           THEN WalletAfter("connect", walletProvider.connected, "message")
           ELSE [walletProvider EXCEPT !.pc = "login", !.loading = TRUE,
                                       !.error = Null, !.op = "connect"]
    /\ UNCHANGED <<apiVars, agent, authClient, WalletFrame>>

\* onError: login() resolves false and connect throws 'Failed to connect
\* with Internet Identity' into its own catch block.
connect_onError ==
    /\ walletProvider.pc = "login"
    /\ walletProvider' = WalletAfter("connect", walletProvider.connected, "message")
    /\ UNCHANGED <<apiVars, agent, authClient, WalletFrame>>

\* onSuccess: isAuthenticated = true, then setupActor; login() resolves
\* true afterwards, or never when setupActor threw.
connect_onSuccess ==
    /\ walletProvider.pc = "login"
    /\ \E setup \in SetupOutcomes :
           /\ isAuthenticated' = TRUE
           /\ agent' = AgentAfter(setup, "authenticated", agent)
           /\ actor' = ActorAfter(setup, "authenticated", actor)
           /\ walletProvider' =
                  [walletProvider EXCEPT
                       !.pc = IF LoginAfterSuccess(setup).settled = "resolved"
                              THEN "getCurrentUser" ELSE "stuck"]
    /\ UNCHANGED <<currentUser, isBackendAvailable, authClient, WalletFrame>>

\* let currentUser = await apiService.getCurrentUser()
connect_getCurrentUser ==
    /\ walletProvider.pc = "getCurrentUser"
    /\ \E tag \in ReplyTags :
           IF isAuthenticated /\ TagWith(actor, tag) = "Ok"
           THEN /\ currentUser' = "p1"
                /\ walletProvider' = WalletAfter("connect", TRUE, Null)
           ELSE /\ walletProvider' = [walletProvider EXCEPT !.pc = "registerUser"]
                /\ UNCHANGED currentUser
    /\ UNCHANGED <<actor, isAuthenticated, isBackendAvailable, agent, authClient,
                   WalletFrame>>

\* const registerResult = await apiService.registerUser(...): the wallet is
\* set on success, 'Failed to register user' is thrown otherwise.
connect_registerUser ==
    /\ walletProvider.pc = "registerUser"
    /\ \E tag \in ReplyTags :
           IF isAuthenticated /\ TagWith(actor, tag) = "Ok"
           THEN /\ currentUser' = "p1"
                /\ walletProvider' = WalletAfter("connect", TRUE, Null)
           ELSE /\ walletProvider' =
                       WalletAfter("connect", walletProvider.connected, "message")
                /\ UNCHANGED currentUser
    /\ UNCHANGED <<actor, isAuthenticated, isBackendAvailable, agent, authClient,
                   WalletFrame>>

\* disconnect(): await apiService.logout(), whose result is not looked at,
\* then setWallet({connected: false, ...}).
disconnect ==
    /\ walletProvider.pc = "idle"
    /\ \E ok \in BOOLEAN, setup \in SetupOutcomes :
           IF authClient = Null \/ ~ok
           THEN UNCHANGED <<apiVars, agent>>
           ELSE /\ isAuthenticated' = FALSE
                /\ currentUser' = Null
                /\ agent' = AgentAfter(setup, "anonymous", Null)
                /\ actor' = ActorAfter(setup, "anonymous", Null)
                /\ UNCHANGED isBackendAvailable
    /\ walletProvider' = WalletAfter("disconnect", FALSE, Null)
    /\ UNCHANGED <<authClient, WalletFrame>>

WalletInit ==
    /\ walletProvider = WalletMounted
    /\ explorer = NoView
    /\ debounced = NoView
    /\ searchService = NoView
    /\ uploads = NoView
    /\ detail = NoView
    /\ ApiConstructed
    /\ login = NoLogin
    /\ last = NoOp
    /\ files = <<>>
    /\ tree = NoTree
    /\ pc = "listed"
    /\ call = Idle
    /\ retry = NoRetry
    /\ wire = NoWire
    /\ normalized = NotNormalized
    /\ again = NoTree

WalletNext ==
    \/ initializeAuth
    \/ connect_call
    \/ connect_onError
    \/ connect_onSuccess
    \/ connect_getCurrentUser
    \/ connect_registerUser
    \/ disconnect

WalletSpec == WalletInit /\ [][WalletNext]_vars

\* ------------------------------------------------------------------ C22

\* C22: whenever a connect or disconnect call of WalletProvider has
\* finished (loading is false again), wallet.connected equals
\* apiService.isAuthenticated, whatever step of the login, user lookup,
\* registration or logout failed.
C22_ConnectedIffAuthenticated ==
    (/\ walletProvider.pc = "idle"
     /\ walletProvider.op \in {"connect", "disconnect"}
     /\ ~walletProvider.loading) =>
        walletProvider.connected = isAuthenticated

\* -------------------------------------------------------- FileExplorer

\* Largest number of fetches the explorer starts.
MaxFetches == 3

\* The currentPath prop ('' is the root).
ExplorerPaths == {"", "src"}

\* What the backend lists at the time a request arrives.
Listings == {"listing1", "listing2"}

\* What apiService.getFileTree resolves with: {success: true, data: {nodes}}
\* or {success: false, error}; it never rejects.
FetchResults ==
    [success : {TRUE}, nodes : Listings, error : {""}]
        \cup [success : {FALSE}, nodes : {"none"}, error : {"message"}]

Pending == [success |-> FALSE, nodes |-> "none", error |-> "pending"]

\* useState: files [], loading true, error null; no fetch started yet.
\* burst is the number of fetches started since none was in flight.
ExplorerMounted ==
    [pc |-> "mounted", files |-> "none", loading |-> TRUE, error |-> Null,
     requests |-> <<>>, inflight |-> {}, burst |-> 0]

ExplorerFrame ==
    <<treeVars, apiVars, call, again, normVars, sessionVars, retry, walletProvider,
      debounced, searchService, uploads, detail>>

\* The effect on [repositoryId, currentPath, refreshTrigger] calls
\* fetchFiles(): setLoading(true), setError(null) and the request leaves.
fetchFiles_call ==
    /\ explorer.pc = "mounted"
    /\ Len(explorer.requests) < MaxFetches
    /\ \E path \in ExplorerPaths :
           explorer' =
               [explorer EXCEPT
                    !.loading = TRUE,
                    !.error = Null,
                    !.requests = Append(@, [path |-> path, result |-> Pending]),
                    !.inflight = @ \cup {Len(explorer.requests) + 1},
                    !.burst = IF explorer.inflight = {} THEN 1 ELSE @ + 1]
    /\ UNCHANGED ExplorerFrame

\* The rest of fetchFiles when its response is there: setFiles(mappedNodes)
\* or setError('Failed to load files: ...'), and finally setLoading(false).
Arrived(e, id, result) ==
    [e EXCEPT !.files = IF result.success THEN result.nodes ELSE @,
              !.error = IF result.success THEN @ ELSE result.error,
              !.loading = FALSE]

\* The response of one of the requests in flight arrives.
fetchFiles_resume ==
    /\ explorer.pc = "mounted"
    /\ \E id \in explorer.inflight, result \in FetchResults :
           explorer' =
               [Arrived(explorer, id, result) EXCEPT
                    !.requests[id].result = result,
                    !.inflight = @ \ {id}]
    /\ UNCHANGED ExplorerFrame

ExplorerInit ==
    /\ explorer = ExplorerMounted
    /\ walletProvider = NoView
    /\ debounced = NoView
    /\ searchService = NoView
    /\ uploads = NoView
    /\ detail = NoView
    /\ ApiConstructed
    /\ login = NoLogin
    /\ last = NoOp
    /\ files = <<>>
    /\ tree = NoTree
    /\ pc = "listed"
    /\ call = Idle
    /\ retry = NoRetry
    /\ wire = NoWire
    /\ normalized = NotNormalized
    /\ again = NoTree

ExplorerNext == fetchFiles_call \/ fetchFiles_resume

ExplorerSpec == ExplorerInit /\ [][ExplorerNext]_vars

\* ------------------------------------------------------------------ C23

\* The fetch started last.
LatestFetch == explorer.requests[Len(explorer.requests)]

\* C23: when fetch B was started before fetch A had settled, then once both
\* have settled the displayed file list, error and loading flag are those
\* of B, whichever response arrived last.
C23_LatestFetchWins ==
    (explorer.burst >= 2 /\ explorer.inflight = {}) =>
        /\ LatestFetch.result.success =>
               /\ explorer.files = LatestFetch.result.nodes
               /\ explorer.error = Null
        /\ ~LatestFetch.result.success =>
               explorer.error = LatestFetch.result.error
        /\ ~explorer.loading

\* -------------------------------------------- SearchService.debounceSearch

\* this.debounceTimeout, in milliseconds.
debounceTimeout == 300

\* Largest number of calls of the debounced functions.
MaxCalls == 3

\* The instant after which the clock is not advanced any more.
LastInstant == 600

\* By how much the clock advances between two events.
Steps == {100, 300}

\* The wrapped functions made with the default delay; they share
\* this.pendingSearches.
Debounced == {"debouncedRepositorySearch", "debouncedUserSearch"}

\* JSON.stringify(args) of the argument lists handed in.
ArgLists == {"[\"a\",{}]", "[\"ab\",{}]"}

\* No timer id is stored under a key.
NoTimer == 0

\* The service when no debounced function has been called: the clock, the
\* calls made (each with its timer and its promise) and the map from key
\* to timer id; the id of a call's timer is the number of the call.
DebounceReady ==
    [pc |-> "ready", now |-> 0, calls |-> <<>>,
     pendingSearches |-> [k \in ArgLists |-> NoTimer]]

DebounceFrame ==
    <<treeVars, apiVars, call, again, normVars, sessionVars, retry, walletProvider,
      explorer, searchService, uploads, detail>>

\* clearTimeout(id): an armed timer is cancelled, any other is left alone.
clearTimeout(calls, id) ==
    IF id # NoTimer /\ calls[id].timer = "armed"
    THEN [calls EXCEPT ![id].timer = "cleared"]
    ELSE calls

\* A call of a debounced function: the timer stored under the key is
\* cleared, a new promise is made and its timer stored.
debounced_call ==
    /\ debounced.pc = "ready"
    /\ Len(debounced.calls) < MaxCalls
    /\ \E fn \in Debounced, key \in ArgLists :
           LET id == Len(debounced.calls) + 1
               cleared == clearTimeout(debounced.calls, debounced.pendingSearches[key])
           IN  debounced' =
                   [debounced EXCEPT
                        !.calls = Append(cleared,
                                         [fn |-> fn, key |-> key, at |-> debounced.now,
                                          timer |-> "armed", promise |-> "pending",
                                          ranAt |-> 0]),
                        !.pendingSearches[key] = id]
    /\ UNCHANGED DebounceFrame

\* The timer of a call fires: this.pendingSearches.delete(key), then
\* searchFn(...args) is invoked.
timer_fires ==
    /\ debounced.pc = "ready"
    /\ \E id \in 1..Len(debounced.calls) :
           /\ debounced.calls[id].timer = "armed"
           /\ debounced.calls[id].at + debounceTimeout <= debounced.now
           /\ debounced' =
                  [debounced EXCEPT
                       !.calls[id].timer = "fired",
                       !.calls[id].promise = "searching",
                       !.calls[id].ranAt = debounced.now,
                       !.pendingSearches[debounced.calls[id].key] = NoTimer]
    /\ UNCHANGED DebounceFrame

\* const result = await searchFn(...args); resolve(result)
searchFn_returns ==
    /\ debounced.pc = "ready"
    /\ \E id \in 1..Len(debounced.calls) :
           /\ debounced.calls[id].promise = "searching"
           /\ debounced' = [debounced EXCEPT !.calls[id].promise = "resolved"]
    /\ UNCHANGED DebounceFrame

\* Time passes, up to the instant at which the next timer is due.
TimePasses ==
    /\ debounced.pc = "ready"
    /\ \E d \in Steps :
           /\ debounced.now + d <= LastInstant
           /\ \A id \in 1..Len(debounced.calls) :
                  debounced.calls[id].timer = "armed" =>
                      debounced.now + d <= debounced.calls[id].at + debounceTimeout
           /\ debounced' = [debounced EXCEPT !.now = @ + d]
    /\ UNCHANGED DebounceFrame

DebounceInit ==
    /\ debounced = DebounceReady
    /\ walletProvider = NoView
    /\ explorer = NoView
    /\ searchService = NoView
    /\ uploads = NoView
    /\ detail = NoView
    /\ ApiConstructed
    /\ login = NoLogin
    /\ last = NoOp
    /\ files = <<>>
    /\ tree = NoTree
    /\ pc = "listed"
    /\ call = Idle
    /\ retry = NoRetry
    /\ wire = NoWire
    /\ normalized = NotNormalized
    /\ again = NoTree

DebounceNext == debounced_call \/ timer_fires \/ searchFn_returns \/ TimePasses

DebounceSpec == DebounceInit /\ [][DebounceNext]_vars

\* ------------------------------------------------------------------ C24

\* Call j of the same debounced function follows call i by less than the delay.
FollowedSoon(i, j) ==
    /\ i < j
    /\ debounced.calls[i].fn = debounced.calls[j].fn
    /\ debounced.calls[j].at - debounced.calls[i].at < debounceTimeout

\* No timer is armed and no search is running.
Quiescent ==
    \A id \in 1..Len(debounced.calls) :
        /\ debounced.calls[id].timer # "armed"
        /\ debounced.calls[id].promise # "searching"

\* C24: among the calls of a debounced function made less than the delay
\* apart only the last one invokes the search function, and it does so no
\* earlier than the delay after that call: a call followed within the delay
\* never invokes it, and a call not so followed has invoked it once the
\* timers have run out.
C24_OneSearchPerBurst ==
    \A i \in 1..Len(debounced.calls) :
        LET followed == \E j \in 1..Len(debounced.calls) : FollowedSoon(i, j)
        IN  /\ followed => debounced.calls[i].timer # "fired"
            /\ debounced.calls[i].timer = "fired" =>
                   debounced.calls[i].ranAt >= debounced.calls[i].at + debounceTimeout
            /\ (Quiescent /\ ~followed) => debounced.calls[i].timer = "fired"

\* ------------------------------------------------------------------ C25

\* C25: every promise a debounced function returned is resolved in the end,
\* the promise of a call superseded by a later call with the same arguments
\* included: when no timer is armed and no search is running any more, no
\* promise is left pending.
C25_EveryPromiseResolves ==
    Quiescent =>
        \A id \in 1..Len(debounced.calls) : debounced.calls[id].promise = "resolved"

\* ------------------------------------------- SearchService.universalSearch

\* this.cacheTimeout = 2 * 60 * 1000, in milliseconds.
cacheTimeout == 120000

\* The values of Date.now() at which something happens: around one and two
\* timeouts after the first.
Instants == {0, 60000, 120000, 120001, 180000, 240001}

\* JSON.stringify({query, scope, filters, sortBy, pagination})
CacheKeys == {"{\"query\":\"a\"}", "{\"query\":\"ab\"}"}

\* What dataService.search resolves with, or that it throws.
SearchResults ==
    [success : {TRUE}, data : {"hits1", "hits2"}, error : {""}]
        \cup [success : {FALSE}, data : {"none"}, error : {"NotFound"}]

Thrown == [success |-> FALSE, data |-> "none", error |-> "thrown"]

\* this.searchCache.get(key) of a key that is not in the map.
NoEntry == [data |-> Thrown, timestamp |-> 0, present |-> FALSE]

\* What universalSearch returned last: from where, how old the entry was
\* when it was looked up, and whether the backend was called.
NoReturn ==
    [key |-> "none", source |-> "none", result |-> Thrown, age |-> 0,
     calledBackend |-> FALSE]

\* new SearchService(): an empty searchCache.
SearchReady ==
    [pc |-> "ready", now |-> 0, searchCache |-> [k \in CacheKeys |-> NoEntry],
     key |-> "none", returned |-> NoReturn]

SearchFrame ==
    <<treeVars, apiVars, call, again, normVars, sessionVars, retry, walletProvider,
      explorer, debounced, uploads, detail>>

\* An entry is looked at only for whether it is there.
Expired_never(entry, now) == FALSE

\* Date.now() - cached.timestamp > this.cacheTimeout
Expired(entry, now) == now - entry.timestamp > cacheTimeout

\* getCachedSearch(key): the data of an entry that has not expired, and the
\* cache, from which an expired entry is deleted.
getCachedSearch(cache, key, now) ==
    IF ~cache[key].present THEN [hit |-> FALSE, cache |-> cache]
    ELSE IF Expired(cache[key], now)
         THEN [hit |-> FALSE, cache |-> [cache EXCEPT ![key] = NoEntry]]
         ELSE [hit |-> TRUE, cache |-> cache]

\* setCachedSearch(key, data)
setCachedSearch(cache, key, data, now) ==
    [cache EXCEPT ![key] = [data |-> data, timestamp |-> now, present |-> TRUE]]

\* universalSearch(query, options) up to "await dataService.search(...)":
\* a cached result is returned at once.
universalSearch_call ==
    /\ searchService.pc = "ready"
    /\ \E key \in CacheKeys :
           LET got == getCachedSearch(searchService.searchCache, key, searchService.now)
           IN  searchService' =
                   IF got.hit
                   THEN [searchService EXCEPT
                             !.returned =
                                 [key |-> key, source |-> "cache",
                                  result |-> got.cache[key].data,
                                  age |-> searchService.now - got.cache[key].timestamp,
                                  calledBackend |-> FALSE]]
                   ELSE [searchService EXCEPT
                             !.pc = "searching", !.key = key,
                             !.searchCache = got.cache, !.returned = NoReturn]
    /\ UNCHANGED SearchFrame

\* dataService.search has settled: a successful result is stored and
\* returned, a failure is returned as {success: false, error}.
universalSearch_resume ==
    /\ searchService.pc = "searching"
    /\ \E result \in SearchResults \cup {Thrown} :
           searchService' =
               [searchService EXCEPT
                    !.pc = "ready",
                    !.key = "none",
                    !.searchCache =
                        IF result.success
                        THEN setCachedSearch(@, searchService.key, result,
                                             searchService.now)
                        ELSE @,
                    !.returned =
                        [key |-> searchService.key, source |-> "backend",
                         result |-> IF result = Thrown
                                    THEN [Thrown EXCEPT !.error = "InternalError"]
                                    ELSE result,
                         age |-> 0, calledBackend |-> TRUE]]
    /\ UNCHANGED SearchFrame

\* Date.now() grows.
ClockAdvances ==
    /\ searchService.pc \in {"ready", "searching"}
    /\ \E t \in Instants :
           /\ searchService.now < t
           /\ searchService' = [searchService EXCEPT !.now = t]
    /\ UNCHANGED SearchFrame

SearchInit ==
    /\ searchService = SearchReady
    /\ walletProvider = NoView
    /\ explorer = NoView
    /\ debounced = NoView
    /\ uploads = NoView
    /\ detail = NoView
    /\ ApiConstructed
    /\ login = NoLogin
    /\ last = NoOp
    /\ files = <<>>
    /\ tree = NoTree
    /\ pc = "listed"
    /\ call = Idle
    /\ retry = NoRetry
    /\ wire = NoWire
    /\ normalized = NotNormalized
    /\ again = NoTree

SearchNext == universalSearch_call \/ universalSearch_resume \/ ClockAdvances

SearchSpec == SearchInit /\ [][SearchNext]_vars

\* ------------------------------------------------------------------ C26

\* What the claim's clauses share: a hit does not call the backend and
\* returns the entry stored under the key, a miss leaves no entry under the
\* key while the backend is asked, and only successful results are stored.
CacheClauses ==
    /\ searchService.returned.source = "cache" =>
           /\ ~searchService.returned.calledBackend
           /\ searchService.searchCache[searchService.returned.key].present
           /\ searchService.returned.result =
                  searchService.searchCache[searchService.returned.key].data
    /\ searchService.pc = "searching" =>
           ~searchService.searchCache[searchService.key].present
    /\ \A k \in CacheKeys :
           searchService.searchCache[k].present =>
               /\ searchService.searchCache[k].data.success
               /\ searchService.searchCache[k].timestamp <= searchService.now

\* C26 as stated: a cached result is returned only if it was stored less
\* than cacheTimeout earlier under the identical key, in which case the
\* backend is not called; an expired entry is removed on lookup; a result
\* with success = false is never stored.
C26_CachedYoungerThanTimeout ==
    /\ CacheClauses
    /\ searchService.returned.source = "cache" =>
           searchService.returned.age < cacheTimeout

\* C26, amended: a cached result is returned only if it was stored no more
\* than cacheTimeout earlier (an entry exactly cacheTimeout old is still
\* served); the other clauses as stated.
C26_CachedWithinTimeout ==
    /\ CacheClauses
    /\ searchService.returned.source = "cache" =>
           searchService.returned.age <= cacheTimeout

\* A result is served from the cache exactly cacheTimeout after it was stored.
C26_Witness ==
    /\ searchService.returned.source = "cache"
    /\ searchService.returned.age = cacheTimeout
    /\ searchService.returned.result.success

\* ------------------------------------------ FileService.uploadMultipleFiles

\* Most files handed to uploadMultipleFiles at once.
MaxUploads == 3

FileNames == {"a.txt", "b.txt"}

\* How the upload of one file goes: the file cannot be read, the backend
\* stores it, the backend answers Err, or the call to the backend throws.
UploadOutcomes == {"unreadable", "Ok", "Err", "Throw"}

\* No uploadMultipleFiles is running.
NoUploads ==
    [pc |-> "idle", fileArray |-> <<>>, outcomes |-> <<>>, uploadedFiles |-> <<>>,
     settled |-> "pending"]

UploadFrame ==
    <<treeVars, apiVars, call, again, normVars, sessionVars, retry, walletProvider,
      explorer, debounced, searchService, detail>>

\* FileService.uploadFile(repositoryId, file, ...): the transformed entry of
\* the backend when apiService.uploadFile reports success with data, and a
\* mock entry made on the spot otherwise, also from the catch block; nothing
\* is thrown.
uploadFile(name, outcome) ==
    IF outcome = "Ok"
    THEN [threw |-> FALSE, entry |-> [name |-> name, mock |-> FALSE]]
    ELSE [threw |-> FALSE, entry |-> [name |-> name, mock |-> TRUE]]

\* uploadMultipleFiles(repositoryId, files, ...) up to the first await:
\* uploadedFiles = [], fileArray = Array.from(files).
uploadMultipleFiles_call ==
    /\ uploads.pc = "idle"
    /\ \E fileArray \in ListsOver(FileNames, MaxUploads) :
           uploads' =
               [NoUploads EXCEPT
                    !.fileArray = fileArray,
                    !.pc = IF fileArray = <<>> THEN "done" ELSE "loop",
                    !.settled = IF fileArray = <<>> THEN "resolved" ELSE "pending"]
    /\ UNCHANGED UploadFrame

\* One round of "for (const file of fileArray)": await this.uploadFile(...),
\* push the entry, or log what was thrown and go on.
uploadMultipleFiles_round ==
    /\ uploads.pc = "loop"
    /\ \E outcome \in UploadOutcomes :
           LET i == Len(uploads.outcomes) + 1
               up == uploadFile(uploads.fileArray[i], outcome)
               last_ == i = Len(uploads.fileArray)
           IN  uploads' =
                   [uploads EXCEPT
                        !.outcomes = Append(@, outcome),
                        !.uploadedFiles = IF up.threw THEN @ ELSE Append(@, up.entry),
                        !.pc = IF last_ THEN "done" ELSE "loop",
                        !.settled = IF last_ THEN "resolved" ELSE "pending"]
    /\ UNCHANGED UploadFrame

\* The caller has taken the returned list.
uploadMultipleFiles_return ==
    /\ uploads.pc = "done"
    /\ uploads' = NoUploads
    /\ UNCHANGED UploadFrame

UploadInit ==
    /\ uploads = NoUploads
    /\ walletProvider = NoView
    /\ explorer = NoView
    /\ debounced = NoView
    /\ searchService = NoView
    /\ detail = NoView
    /\ ApiConstructed
    /\ login = NoLogin
    /\ last = NoOp
    /\ files = <<>>
    /\ tree = NoTree
    /\ pc = "listed"
    /\ call = Idle
    /\ retry = NoRetry
    /\ wire = NoWire
    /\ normalized = NotNormalized
    /\ again = NoTree

UploadNext ==
    \/ uploadMultipleFiles_call
    \/ uploadMultipleFiles_round
    \/ uploadMultipleFiles_return

UploadSpec == UploadInit /\ [][UploadNext]_vars

\* ------------------------------------------------------------------ C27

\* The names of the first n files whose upload did not fail, in input order.
RECURSIVE Succeeded(_)
Succeeded(n) ==
    IF n = 0 THEN <<>>
    ELSE IF uploads.outcomes[n] = "Ok"
         THEN Append(Succeeded(n - 1), uploads.fileArray[n])
         ELSE Succeeded(n - 1)

\* C27: uploadMultipleFiles uploads the files one at a time in input order,
\* never rejects, and returns the entries of exactly the files whose upload
\* did not fail, in input order; a failed file does not keep the files
\* after it from being uploaded.
C27_ExactlyTheUploaded ==
    /\ uploads.settled # "rejected"
    /\ Len(uploads.outcomes) <= Len(uploads.fileArray)
    /\ uploads.pc = "done" =>
           /\ uploads.settled = "resolved"
           /\ Len(uploads.outcomes) = Len(uploads.fileArray)
    /\ [k \in 1..Len(uploads.uploadedFiles) |-> uploads.uploadedFiles[k].name]
           = Succeeded(Len(uploads.outcomes))

\* ------------------------------------------- RepositoryDetail: breadcrumbs

\* Longest path string, in characters.
MaxPathLen == 4

\* A path is a string: a sequence of characters, '/' among them.
Slash == "/"

NameChars == {"a", "b"}

RECURSIVE StringsOver(_, _)
StringsOver(chars, n) ==
    IF n = 0 THEN {<<>>}
    ELSE LET shorter == StringsOver(chars, n - 1)
         IN  shorter \cup {Append(s, c) : s \in {x \in shorter : Len(x) = n - 1},
                                           c \in chars}

\* The paths of the folder nodes that may be selected.
PathStrings == StringsOver(NameChars \cup {Slash}, MaxPathLen)

\* str.split('/')
RECURSIVE split(_)
split(str) ==
    IF \A k \in 1..Len(str) : str[k] # Slash THEN <<str>>
    ELSE LET k == CHOOSE i \in 1..Len(str) :
                      str[i] = Slash /\ \A j \in 1..(i - 1) : str[j] # Slash
         IN  <<SubSeq(str, 1, k - 1)>> \o split(SubSeq(str, k + 1, Len(str)))

\* A breadcrumb list that keeps the empty segments.
filterBoolean_keepsAll(segments) == segments

\* segments.filter(Boolean): the empty strings are dropped.
filterBoolean(segments) ==
    LET NonEmpty(x) == x # <<>>
    IN  SelectSeq(segments, NonEmpty)

\* segments.join('/')
RECURSIVE join(_)
join(segments) ==
    IF segments = <<>> THEN <<>>
    ELSE IF Len(segments) = 1 THEN segments[1]
    ELSE segments[1] \o <<Slash>> \o join(Tail(segments))

\* The state a breadcrumb click started from is kept; a folder selection
\* keeps none.
NoBefore == [currentPath |-> <<>>, breadcrumbs |-> <<>>]

\* useState: currentPath '' and breadcrumbs []; the effect on currentPath
\* has run.  op, index and before describe the handler that ran last.
DetailMounted ==
    [pc |-> "rendered", currentPath |-> <<>>, breadcrumbs |-> <<>>,
     op |-> "none", index |-> 0, before |-> NoBefore]

DetailFrame ==
    <<treeVars, apiVars, call, again, normVars, sessionVars, retry, walletProvider,
      explorer, debounced, searchService, uploads>>

\* setCurrentPath(path) by handler op: a changed path schedules the effect.
SetCurrentPath(op, index, path) ==
    [detail EXCEPT
         !.currentPath = path,
         !.pc = IF path = detail.currentPath THEN "rendered" ELSE "effect",
         !.op = op,
         !.index = index,
         !.before = IF op = "navigateToBreadcrumb"
                    THEN [currentPath |-> detail.currentPath,
                          breadcrumbs |-> detail.breadcrumbs]
                    ELSE NoBefore]

\* handleFileSelect(file) with a folder: setCurrentPath(file.path)
handleFileSelect ==
    /\ detail.pc = "rendered"
    /\ \E path \in PathStrings : detail' = SetCurrentPath("handleFileSelect", 0, path)
    /\ UNCHANGED DetailFrame

\* navigateToBreadcrumb(index), for the root button (-1) and for each
\* breadcrumb on display.
navigateToBreadcrumb ==
    /\ detail.pc = "rendered"
    /\ \E index \in (-1)..(Len(detail.breadcrumbs) - 1) :
           detail' =
               SetCurrentPath("navigateToBreadcrumb", index,
                              IF index = -1 THEN <<>>
                              ELSE join(SubSeq(detail.breadcrumbs, 1, index + 1)))
    /\ UNCHANGED DetailFrame

\* The effect on [currentPath]: setBreadcrumbs(...)
breadcrumbEffect ==
    /\ detail.pc = "effect"
    /\ detail' =
           [detail EXCEPT
                !.breadcrumbs = IF detail.currentPath # <<>>
                                THEN filterBoolean(split(detail.currentPath))
                                ELSE <<>>,
                !.pc = "rendered"]
    /\ UNCHANGED DetailFrame

DetailInit ==
    /\ detail = DetailMounted
    /\ walletProvider = NoView
    /\ explorer = NoView
    /\ debounced = NoView
    /\ searchService = NoView
    /\ uploads = NoView
    /\ ApiConstructed
    /\ login = NoLogin
    /\ last = NoOp
    /\ files = <<>>
    /\ tree = NoTree
    /\ pc = "listed"
    /\ call = Idle
    /\ retry = NoRetry
    /\ wire = NoWire
    /\ normalized = NotNormalized
    /\ again = NoTree

DetailNext == handleFileSelect \/ navigateToBreadcrumb \/ breadcrumbEffect

DetailSpec == DetailInit /\ [][DetailNext]_vars

\* ------------------------------------------------------------------ C28

\* The path with every run of '/' made one and no '/' at the end.
RECURSIVE Squeeze(_)
Squeeze(str) ==
    IF str = <<>> THEN <<>>
    ELSE LET rest == Squeeze(Tail(str))
         IN  IF Head(str) # Slash THEN <<Head(str)>> \o rest
             ELSE IF rest = <<>> \/ Head(rest) = Slash THEN rest
             ELSE <<Slash>> \o rest

\* ... and none at the start: the non-empty segments, '/' between them.
Trimmed(str) ==
    LET s == Squeeze(str)
    IN  IF s # <<>> /\ Head(s) = Slash THEN Tail(s) ELSE s

\* Path p is path q or one of the folders above it.
AncestorOrSelf(p, q) ==
    \/ p = <<>>
    \/ /\ Len(p) <= Len(q)
       /\ SubSeq(q, 1, Len(p)) = p
       /\ Len(p) = Len(q) \/ q[Len(p) + 1] = Slash

\* C28: once the effect has run, the breadcrumbs are the non-empty
\* '/'-separated segments of currentPath; navigateToBreadcrumb(i) with
\* 0 <= i < length sets currentPath to the first i + 1 breadcrumbs joined by
\* '/', navigateToBreadcrumb(-1) sets it to '', and so a breadcrumb click
\* moves to the current path or to one of its ancestors.
C28_BreadcrumbsFollowPath ==
    /\ detail.pc = "rendered" =>
           /\ \A k \in 1..Len(detail.breadcrumbs) :
                  /\ detail.breadcrumbs[k] # <<>>
                  /\ \A c \in 1..Len(detail.breadcrumbs[k]) :
                         detail.breadcrumbs[k][c] # Slash
           /\ join(detail.breadcrumbs) = Trimmed(detail.currentPath)
    /\ detail.op = "navigateToBreadcrumb" =>
           /\ detail.index = -1 => detail.currentPath = <<>>
           /\ detail.index >= 0 =>
                  /\ detail.index < Len(detail.before.breadcrumbs)
                  /\ detail.currentPath =
                         join(SubSeq(detail.before.breadcrumbs, 1, detail.index + 1))
           /\ AncestorOrSelf(detail.currentPath, Trimmed(detail.before.currentPath))

\* From a path with an empty segment the first breadcrumb was clicked, and
\* the breadcrumbs have followed.
C28_Witness ==
    /\ detail.pc = "rendered"
    /\ detail.op = "navigateToBreadcrumb"
    /\ detail.index = 0
    /\ detail.before.currentPath = <<"a", "/", "/", "b">>
    /\ detail.currentPath = <<"a">>
    /\ detail.breadcrumbs = << <<"a">> >>

====
